---- MODULE Spec2Model ----
(***************************************************************************)
(* Model of the ntn (nitro-testnode) deployment orchestration engine:      *)
(* flag validation, command output extraction, the command executor's      *)
(* exit-code mapping and the init phase pipeline with its sub-workflows.   *)
(***************************************************************************)
EXTENDS Integers, Sequences, FiniteSets, TLC

VARIABLES
    vflags,     \* FlagSet handed to validateFlags
    vresult,    \* ValidationResult returned for vflags
    services,   \* service list calculateServices returned for vflags
    text,       \* stdout handed to the extraction helpers
    extracted,  \* result of the extraction helpers on text
    options,    \* CleanCommandOptions given to cleanCommand
    input,      \* InitCommandFlags given to initCommand
    pc,         \* position of the init pipeline: the next step to execute
    ctx,        \* InitContext of the run
    loc,        \* local values of the running sub-workflow
    phaseIdx,   \* index of the current phase in createInitPhases()
    started,    \* names of the phases whose body was started, in order
    calls,      \* Command-Executor calls issued so far, in order
    lastCall,   \* the most recent Command-Executor call and its result
    err,        \* the error value the run rejected with
    errorLog,   \* the last logger.error line
    background  \* detached background traffic generators that are running

vars == <<vflags, vresult, services, text, extracted, options, input, pc,
          ctx, loc, phaseIdx, started, calls, lastCall, err, errorLog,
          background>>

pureVars == <<vflags, vresult, services, text, extracted, options>>
runVars == <<input, pc, ctx, loc, phaseIdx, started, calls, lastCall, err,
             errorLog, background>>

\* JavaScript undefined, for text-valued and tuple-valued fields
Undef == <<"undefined">>

\* !x for a text-valued field: undefined and '' are falsy
Falsy(x) == x = Undef \/ x = <<>>

\* ------------------------------------------------------------------------
\* Bounds of the model
\* ------------------------------------------------------------------------

\* how far outside their legal range numeric flags are drawn
Slack == 1
\* longest stdout handed to the extraction helpers
MaxLen == 6
\* most volumes docker lists for the clean command
MaxVolumes == 2

\* ------------------------------------------------------------------------
\* Program constants
\* ------------------------------------------------------------------------

MAX_BATCH_POSTERS == 3
MAX_REDUNDANT_SEQUENCERS == 3
MIN_FEE_TOKEN_DECIMALS == 0
MAX_FEE_TOKEN_DECIMALS == 36
DEFAULT_FEE_TOKEN_DECIMALS == 18

\* ------------------------------------------------------------------------
\* Text: a string is a sequence of one-character strings
\* ------------------------------------------------------------------------

SP == " "
NL == "\n"
CR == "\r"

IsWs(c) == c \in {SP, NL, CR}

RECURSIVE trimStart(_)
trimStart(s) ==
    IF s = <<>> THEN <<>>
    ELSE IF IsWs(Head(s)) THEN trimStart(Tail(s)) ELSE s

RECURSIVE trimEnd(_)
trimEnd(s) ==
    IF s = <<>> THEN <<>>
    ELSE IF IsWs(s[Len(s)]) THEN trimEnd(SubSeq(s, 1, Len(s) - 1)) ELSE s

\* String.prototype.trim
trim(s) == trimEnd(trimStart(s))

\* String.prototype.split(sep) for a one-character separator:
\* "" splits into [""], and n separators give n + 1 pieces
RECURSIVE splitAcc(_, _, _)
splitAcc(s, sep, cur) ==
    IF s = <<>> THEN <<cur>>
    ELSE IF Head(s) = sep THEN <<cur>> \o splitAcc(Tail(s), sep, <<>>)
    ELSE splitAcc(Tail(s), sep, Append(cur, Head(s)))

split(s, sep) == splitAcc(s, sep, <<>>)

\* String.prototype.split(/\s+/): a run of whitespace is one separator
RECURSIVE splitWsAcc(_, _)
splitWsAcc(s, cur) ==
    IF s = <<>> THEN <<cur>>
    ELSE IF IsWs(Head(s)) THEN <<cur>> \o splitWsAcc(trimStart(s), <<>>)
    ELSE splitWsAcc(Tail(s), Append(cur, Head(s)))

splitWs(s) == splitWsAcc(s, <<>>)

SelectChars(s, Keep(_)) == SelectSeq(s, Keep)

NotCR(c) == c # CR

\* '0x' prefix test used for every address check
startsWith0x(s) == Len(s) >= 2 /\ s[1] = "0" /\ s[2] = "x"

\* getLastLine taking the first line of the output instead of the last
getFirstLine(output) ==
    LET lines == split(trim(output), NL)
    IN  trim(lines[1])

\* getLastLine: output.trim().split('\n'), last element, trimmed
getLastLine(output) ==
    LET lines == split(trim(output), NL)
    IN  trim(lines[Len(lines)])

\* cleanOutput: \r\n -> \n, remaining \r removed, trimmed
cleanOutput(output) == trim(SelectChars(output, NotCR))

\* "last word of last line": getLastLine, split(/\s+/), last, cleanOutput
lastWordOfLastLine(stdout) ==
    LET lastLine == getLastLine(stdout)
        words == splitWs(lastLine)
    IN  cleanOutput(words[Len(words)])

\* the address check every extracting step applies to its value
validAddress(address) == address # <<>> /\ startsWith0x(address)

\* ------------------------------------------------------------------------
\* FlagSet
\* ------------------------------------------------------------------------

defaultFlags ==
    [init |-> FALSE, force |-> FALSE,
     devNitro |-> FALSE, devBlockscout |-> FALSE, devContracts |-> FALSE,
     build |-> FALSE, buildDevNitro |-> FALSE, buildDevBlockscout |-> FALSE,
     buildUtils |-> FALSE, forceBuildUtils |-> FALSE,
     buildNodeImages |-> FALSE,
     validate |-> FALSE, blockscout |-> FALSE, tokenbridge |-> FALSE,
     l3node |-> FALSE, l3FeeToken |-> FALSE, l3FeeTokenPricer |-> FALSE,
     l3FeeTokenDecimals |-> 18, l3TokenBridge |-> FALSE,
     l2Anytrust |-> FALSE, l2Timeboost |-> FALSE,
     batchposters |-> 1, redundantsequencers |-> 0,
     pos |-> FALSE,
     run |-> TRUE, detach |-> FALSE, nowait |-> FALSE, simple |-> TRUE,
     l1Traffic |-> TRUE, l2Traffic |-> TRUE, l3Traffic |-> TRUE,
     ci |-> FALSE, verbose |-> FALSE]

\* ------------------------------------------------------------------------
\* validateFlags
\* ------------------------------------------------------------------------

\* the number a non-numeric value of a yargs option of type 'number' parses
\* to; no number is equal to it, less than it or greater than it
NaN == -1000

\* a < b and a > b on JavaScript numbers
jsLess(a, b) == a # NaN /\ b # NaN /\ a < b
jsGreater(a, b) == a # NaN /\ b # NaN /\ a > b

validateRuntimeDependencies(flags) ==
    IF flags.nowait /\ ~flags.detach
    THEN <<"NOWAIT_REQUIRES_DETACH">> ELSE <<>>

\* validateL3Dependencies with the fee-token checks chained by else: after
\* the pricer error the decimals check is not made
validateL3DependenciesElse(flags) ==
    (IF flags.l3FeeToken /\ ~flags.l3node
     THEN <<"L3_FEE_TOKEN_REQUIRES_L3NODE">> ELSE <<>>)
    \o (IF flags.l3FeeTokenPricer /\ ~flags.l3FeeToken
        THEN <<"L3_FEE_TOKEN_PRICER_REQUIRES_FEE_TOKEN">>
        ELSE IF flags.l3FeeTokenDecimals # 18 /\ ~flags.l3FeeToken
        THEN <<"L3_FEE_TOKEN_DECIMALS_REQUIRES_FEE_TOKEN">> ELSE <<>>)
    \o (IF flags.l3TokenBridge /\ ~flags.l3node
        THEN <<"L3_TOKEN_BRIDGE_REQUIRES_L3NODE">> ELSE <<>>)

\* validateL3Dependencies without the rule for the L2-L3 token bridge
validateL3DependenciesNoBridge(flags) ==
    (IF flags.l3FeeToken /\ ~flags.l3node
     THEN <<"L3_FEE_TOKEN_REQUIRES_L3NODE">> ELSE <<>>)
    \o (IF flags.l3FeeTokenPricer /\ ~flags.l3FeeToken
        THEN <<"L3_FEE_TOKEN_PRICER_REQUIRES_FEE_TOKEN">> ELSE <<>>)
    \o (IF flags.l3FeeTokenDecimals # 18 /\ ~flags.l3FeeToken
        THEN <<"L3_FEE_TOKEN_DECIMALS_REQUIRES_FEE_TOKEN">> ELSE <<>>)

validateL3Dependencies(flags) ==
    (IF flags.l3FeeToken /\ ~flags.l3node
     THEN <<"L3_FEE_TOKEN_REQUIRES_L3NODE">> ELSE <<>>)
    \o (IF flags.l3FeeTokenPricer /\ ~flags.l3FeeToken
        THEN <<"L3_FEE_TOKEN_PRICER_REQUIRES_FEE_TOKEN">> ELSE <<>>)
    \o (IF flags.l3FeeTokenDecimals # 18 /\ ~flags.l3FeeToken
        THEN <<"L3_FEE_TOKEN_DECIMALS_REQUIRES_FEE_TOKEN">> ELSE <<>>)
    \o (IF flags.l3TokenBridge /\ ~flags.l3node
        THEN <<"L3_TOKEN_BRIDGE_REQUIRES_L3NODE">> ELSE <<>>)

validateRangeConstraints(flags) ==
    LET decimalsOutOfRange ==
            \/ jsLess(flags.l3FeeTokenDecimals, MIN_FEE_TOKEN_DECIMALS)
            \/ jsGreater(flags.l3FeeTokenDecimals, MAX_FEE_TOKEN_DECIMALS)
    IN  (IF decimalsOutOfRange
         THEN <<"L3_FEE_TOKEN_DECIMALS_OUT_OF_RANGE">> ELSE <<>>)
        \o (IF jsLess(flags.batchposters, 0)
               \/ jsGreater(flags.batchposters, MAX_BATCH_POSTERS)
            THEN <<"BATCH_POSTERS_OUT_OF_RANGE">> ELSE <<>>)
        \o (IF jsLess(flags.redundantsequencers, 0)
               \/ jsGreater(flags.redundantsequencers,
                            MAX_REDUNDANT_SEQUENCERS)
            THEN <<"REDUNDANT_SEQUENCERS_OUT_OF_RANGE">> ELSE <<>>)

\* generateWarnings with the batch-poster warning given from one poster on
generateWarningsFromOne(flags) ==
    (IF flags.simple /\ flags.batchposters > 0
     THEN <<"SIMPLE_MODE_IGNORES_BATCH_POSTERS">> ELSE <<>>)
    \o (IF flags.simple /\ flags.redundantsequencers > 0
        THEN <<"SIMPLE_MODE_IGNORES_REDUNDANT_SEQUENCERS">> ELSE <<>>)
    \o (IF flags.l3Traffic /\ ~flags.l3node
        THEN <<"L3_TRAFFIC_WITHOUT_L3NODE">> ELSE <<>>)

generateWarnings(flags) ==
    (IF flags.simple /\ flags.batchposters > 1
     THEN <<"SIMPLE_MODE_IGNORES_BATCH_POSTERS">> ELSE <<>>)
    \o (IF flags.simple /\ flags.redundantsequencers > 0
        THEN <<"SIMPLE_MODE_IGNORES_REDUNDANT_SEQUENCERS">> ELSE <<>>)
    \o (IF flags.l3Traffic /\ ~flags.l3node
        THEN <<"L3_TRAFFIC_WITHOUT_L3NODE">> ELSE <<>>)

validateFlags(flags) ==
    LET errors == validateRuntimeDependencies(flags)
                  \o validateL3Dependencies(flags)
                  \o validateRangeConstraints(flags)
        warnings == generateWarnings(flags)
    IN  [errors |-> errors, warnings |-> warnings, valid |-> Len(errors) = 0]

\* ------------------------------------------------------------------------
\* calculateServices
\* ------------------------------------------------------------------------

\* calculateServices with the redis test inverted
calculateServicesRedisInSimple(flags) ==
    <<"sequencer">>
    \o (IF flags.simple THEN <<"redis">> ELSE <<>>)
    \o (IF flags.redundantsequencers > 0 THEN <<"sequencer_b">> ELSE <<>>)
    \o (IF flags.redundantsequencers > 1 THEN <<"sequencer_c">> ELSE <<>>)
    \o (IF flags.redundantsequencers > 2 THEN <<"sequencer_d">> ELSE <<>>)
    \o (IF flags.batchposters > 0 /\ ~flags.simple
        THEN <<"poster">> ELSE <<>>)
    \o (IF flags.batchposters > 1 THEN <<"poster_b">> ELSE <<>>)
    \o (IF flags.batchposters > 2 THEN <<"poster_c">> ELSE <<>>)
    \o (IF flags.validate THEN <<"validator">> ELSE <<>>)
    \o (IF ~flags.validate /\ ~flags.simple THEN <<"staker-unsafe">> ELSE <<>>)
    \o (IF flags.l3node THEN <<"l3node">> ELSE <<>>)
    \o (IF flags.blockscout THEN <<"blockscout">> ELSE <<>>)
    \o (IF flags.l2Timeboost
        THEN <<"timeboost-auctioneer", "timeboost-bid-validator">>
        ELSE <<>>)

\* calculateServices with the staker test detached from the validator test
calculateServicesStakerAlways(flags) ==
    <<"sequencer">>
    \o (IF ~flags.simple THEN <<"redis">> ELSE <<>>)
    \o (IF flags.redundantsequencers > 0 THEN <<"sequencer_b">> ELSE <<>>)
    \o (IF flags.redundantsequencers > 1 THEN <<"sequencer_c">> ELSE <<>>)
    \o (IF flags.redundantsequencers > 2 THEN <<"sequencer_d">> ELSE <<>>)
    \o (IF flags.batchposters > 0 /\ ~flags.simple
        THEN <<"poster">> ELSE <<>>)
    \o (IF flags.batchposters > 1 THEN <<"poster_b">> ELSE <<>>)
    \o (IF flags.batchposters > 2 THEN <<"poster_c">> ELSE <<>>)
    \o (IF flags.validate THEN <<"validator">> ELSE <<>>)
    \o (IF ~flags.simple THEN <<"staker-unsafe">> ELSE <<>>)
    \o (IF flags.l3node THEN <<"l3node">> ELSE <<>>)
    \o (IF flags.blockscout THEN <<"blockscout">> ELSE <<>>)
    \o (IF flags.l2Timeboost
        THEN <<"timeboost-auctioneer", "timeboost-bid-validator">>
        ELSE <<>>)

\* calculateServices with the third sequencer on the fourth's threshold
calculateServicesTierSlip(flags) ==
    <<"sequencer">>
    \o (IF ~flags.simple THEN <<"redis">> ELSE <<>>)
    \o (IF flags.redundantsequencers > 0 THEN <<"sequencer_b">> ELSE <<>>)
    \o (IF flags.redundantsequencers > 2 THEN <<"sequencer_c">> ELSE <<>>)
    \o (IF flags.redundantsequencers > 2 THEN <<"sequencer_d">> ELSE <<>>)
    \o (IF flags.batchposters > 0 /\ ~flags.simple
        THEN <<"poster">> ELSE <<>>)
    \o (IF flags.batchposters > 1 THEN <<"poster_b">> ELSE <<>>)
    \o (IF flags.batchposters > 2 THEN <<"poster_c">> ELSE <<>>)
    \o (IF flags.validate THEN <<"validator">> ELSE <<>>)
    \o (IF ~flags.validate /\ ~flags.simple THEN <<"staker-unsafe">> ELSE <<>>)
    \o (IF flags.l3node THEN <<"l3node">> ELSE <<>>)
    \o (IF flags.blockscout THEN <<"blockscout">> ELSE <<>>)
    \o (IF flags.l2Timeboost
        THEN <<"timeboost-auctioneer", "timeboost-bid-validator">>
        ELSE <<>>)

\* calculateServices with every poster tied to non-simple mode
calculateServicesPostersGated(flags) ==
    <<"sequencer">>
    \o (IF ~flags.simple THEN <<"redis">> ELSE <<>>)
    \o (IF flags.redundantsequencers > 0 THEN <<"sequencer_b">> ELSE <<>>)
    \o (IF flags.redundantsequencers > 1 THEN <<"sequencer_c">> ELSE <<>>)
    \o (IF flags.redundantsequencers > 2 THEN <<"sequencer_d">> ELSE <<>>)
    \o (IF flags.batchposters > 0 /\ ~flags.simple
        THEN <<"poster">> ELSE <<>>)
    \o (IF flags.batchposters > 1 /\ ~flags.simple
        THEN <<"poster_b">> ELSE <<>>)
    \o (IF flags.batchposters > 2 /\ ~flags.simple
        THEN <<"poster_c">> ELSE <<>>)
    \o (IF flags.validate THEN <<"validator">>
        ELSE IF ~flags.simple THEN <<"staker-unsafe">> ELSE <<>>)
    \o (IF flags.l3node THEN <<"l3node">> ELSE <<>>)
    \o (IF flags.blockscout THEN <<"blockscout">> ELSE <<>>)
    \o (IF flags.l2Timeboost
        THEN <<"timeboost-auctioneer", "timeboost-bid-validator">>
        ELSE <<>>)

calculateServices(flags) ==
    <<"sequencer">>
    \o (IF ~flags.simple THEN <<"redis">> ELSE <<>>)
    \o (IF flags.redundantsequencers > 0 THEN <<"sequencer_b">> ELSE <<>>)
    \o (IF flags.redundantsequencers > 1 THEN <<"sequencer_c">> ELSE <<>>)
    \o (IF flags.redundantsequencers > 2 THEN <<"sequencer_d">> ELSE <<>>)
    \o (IF flags.batchposters > 0 /\ ~flags.simple
        THEN <<"poster">> ELSE <<>>)
    \o (IF flags.batchposters > 1 THEN <<"poster_b">> ELSE <<>>)
    \o (IF flags.batchposters > 2 THEN <<"poster_c">> ELSE <<>>)
    \o (IF flags.validate THEN <<"validator">>
        ELSE IF ~flags.simple THEN <<"staker-unsafe">> ELSE <<>>)
    \o (IF flags.l3node THEN <<"l3node">> ELSE <<>>)
    \o (IF flags.blockscout THEN <<"blockscout">> ELSE <<>>)
    \o (IF flags.l2Timeboost
        THEN <<"timeboost-auctioneer", "timeboost-bid-validator">>
        ELSE <<>>)

\* calculateInitialSequencerNodes returning every redundant sequencer
calculateInitialSequencerNodesAll(flags) ==
    <<"sequencer">>
    \o (IF flags.redundantsequencers > 0 THEN <<"sequencer_b">> ELSE <<>>)
    \o (IF flags.redundantsequencers > 1 THEN <<"sequencer_c">> ELSE <<>>)
    \o (IF flags.redundantsequencers > 2 THEN <<"sequencer_d">> ELSE <<>>)

\* the sequencers that are started before the rest of the pipeline goes on
calculateInitialSequencerNodes(flags) ==
    <<"sequencer">>
    \o (IF flags.redundantsequencers > 0 THEN <<"sequencer_b">> ELSE <<>>)

\* ------------------------------------------------------------------------
\* Command Executor: exec / spawn results as the shell helpers report them
\* ------------------------------------------------------------------------

\* exit code of a child that was ended by a signal (node reports null)
NoCode == -1

\* exit codes drawn for a child that exits by itself
ExitCodes == {0, 1}

\* how a child process ends: it exits with a code, or it is killed by a
\* signal (the kill node sends when the timeout option expires, or a kill
\* from outside) and has no exit code
ProcOutcomes ==
    {[code |-> c, killed |-> FALSE] : c \in ExitCodes}
    \cup {[code |-> NoCode, killed |-> TRUE]}

\* error?.code of the exec callback: no error when the child exited 0, else
\* an error whose code is the exit code, null for a signal-killed child
execErrorCode(o) == IF o.killed THEN NoCode ELSE o.code

\* runWithCode: code: error?.code ?? 0
runWithCode(o, stdout) ==
    LET errorCode == execErrorCode(o)
    IN  [code |-> IF errorCode # NoCode THEN errorCode ELSE 0,
         killed |-> o.killed, stdout |-> stdout]

\* runStreaming: child.on('close', (code) => resolve(code ?? 0))
runStreaming(o) ==
    [code |-> IF o.code # NoCode THEN o.code ELSE 0, killed |-> o.killed,
     stdout |-> <<>>]

\* composeRun, composeDown, composeExec and runWithCode calls: all results
\* for a command whose stdout is one of Outs
Captured(Outs) == {runWithCode(o, s) : o \in ProcOutcomes, s \in Outs}

\* composeUp and composeBuild calls (runStreaming)
Streamed == {runStreaming(o) : o \in ProcOutcomes}

\* stdout of the commands the pipeline reads values from
GoodAddr == <<"0", "x", "A">>
OutNone == {<<>>}
\* a command that prints an address: nothing, log lines ending in the
\* address, or a value that is no address
OutAddress ==
    {<<>>, <<"l", NL, "0", "x", "A", CR, NL>>, <<"n", "u", "l", "l", NL>>}
\* a command that prints a line ending in an address
OutLastWord ==
    {<<>>, <<"l", NL, "a", "t", SP, "0", "x", "A", CR, NL>>,
     <<"0", "x", "A", SP, "o", "k", NL>>}
\* a command that prints a key or another opaque value
OutValue == {<<>>, <<"k", "e", "y", NL>>}
\* a listing command: ids, or nothing
OutList == {<<>>, <<"i", "d", NL>>}

CapturedNone == Captured(OutNone)
CapturedAddress == Captured(OutAddress)
CapturedLastWord == Captured(OutLastWord)
CapturedValue == Captured(OutValue)
CapturedList == Captured(OutList)
\* jq -r ... | tail -n 1 | tr -d '\r\n': nothing when the file is not there,
\* the address, or null when the document has no such member
OutRollup == {<<>>, GoodAddr, <<"n", "u", "l", "l">>}
CapturedRollup == Captured(OutRollup)

\* steps that pass a timeout option to the Command Executor, in ms
TimeoutOf(step) ==
    CASE step \in {"createBeaconChainGenesis", "startGeth_sync",
                   "setValidKeyset", "startSequencersAndFund_bridge",
                   "deployBiddingToken", "deployAuctionContract",
                   "restartSequencers", "deployCustomFeeToken_create",
                   "deployCustomFeeToken_pricer",
                   "fundL3Accounts_bridgeNative", "fundL3Accounts_bridge"}
             -> 120000
      [] step \in {"deployRollup", "deployTokenBridge_deploy",
                   "deployL3Rollup_deploy", "deployL3TokenBridge_deploy"}
             -> 300000
      [] OTHER -> 0

\* ------------------------------------------------------------------------
\* Init pipeline: state and step helpers
\* ------------------------------------------------------------------------

\* cleanCommand(options = {}): force and pruneImages are undefined
NoOptions == [force |-> FALSE, pruneImages |-> FALSE]

NoError == [message |-> "none"]
NoLog == [message |-> "none", phase |-> "none"]
NoCall == [code |-> 0, killed |-> FALSE, step |-> "none", addrs |-> {},
           args |-> <<>>, warned |-> FALSE]

NoLoc ==
    [i |-> 0, ids |-> Undef,
     dasBlsA |-> Undef, dasBlsB |-> Undef,
     biddingTokenAddress |-> Undef, auctionContractAddress |-> Undef,
     auctioneerAddress |-> Undef, rollupAddress |-> Undef,
     l3OwnerAddress |-> Undef, l3OwnerKey |-> Undef,
     l3SequencerAddress |-> Undef, nativeTokenAddress |-> Undef,
     feeTokenPricerAddress |-> Undef, deployerKey |-> Undef,
     l2Weth |-> Undef, tokenBridgeCreator |-> Undef,
     volumes |-> <<>>, removed |-> <<>>, failed |-> <<>>]

\* InitContext as runInit constructs it
newContext(flags) ==
    [flags |-> flags, l1ChainId |-> 1337,
     l2OwnerAddress |-> Undef, l2OwnerKey |-> Undef,
     sequencerAddress |-> Undef, wasmRoot |-> Undef,
     anyTrustConfig |-> Undef]

\* createInitPhases with 'Deploy L2 chain' listed before 'Setup L1 chain'
createInitPhasesSwapped ==
    << [run |-> "cleanupExisting_down", name |-> "Cleanup existing data",
        hasSkip |-> FALSE],
       [run |-> "buildDevNitro", name |-> "Build docker images",
        hasSkip |-> FALSE],
       [run |-> "getSequencerAddress", name |-> "Deploy L2 chain",
        hasSkip |-> FALSE],
       [run |-> "generateL1Keys_writeAccounts", name |-> "Setup L1 chain",
        hasSkip |-> FALSE],
       [run |-> "writeNodeConfigs", name |-> "Configure L2 nodes",
        hasSkip |-> FALSE],
       [run |-> "setupTrafficGenerators",
        name |-> "Setup traffic generators", hasSkip |-> TRUE],
       [run |-> "launchServices", name |-> "Launch services",
        hasSkip |-> FALSE] >>

createInitPhases ==
    << [run |-> "cleanupExisting_down", name |-> "Cleanup existing data",
        hasSkip |-> FALSE],
       [run |-> "buildDevNitro", name |-> "Build docker images",
        hasSkip |-> FALSE],
       [run |-> "generateL1Keys_writeAccounts", name |-> "Setup L1 chain",
        hasSkip |-> FALSE],
       [run |-> "getSequencerAddress", name |-> "Deploy L2 chain",
        hasSkip |-> FALSE],
       [run |-> "writeNodeConfigs", name |-> "Configure L2 nodes",
        hasSkip |-> FALSE],
       [run |-> "setupTrafficGenerators",
        name |-> "Setup traffic generators", hasSkip |-> TRUE],
       [run |-> "launchServices", name |-> "Launch services",
        hasSkip |-> FALSE] >>

\* phase.skip?.(ctx): only the traffic phase has a skip predicate
skip(phase, c) ==
    /\ phase.hasSkip
    /\ ~c.flags.l1Traffic /\ ~c.flags.l2Traffic /\ ~c.flags.l3Traffic

\* the frame of every pipeline step
StepFrame == UNCHANGED <<pureVars, input, phaseIdx, started, background>>

\* a Command-Executor call that is issued and not awaited: the step goes on
\* without its result
IssueUnawaited(step, addrs, args, r, warn) ==
    /\ calls' = Append(calls, step)
    /\ UNCHANGED lastCall

\* a Command-Executor call is issued and returns r; addrs are the values it
\* is given as addresses, args its other arguments of interest
IssueWith(step, addrs, args, r, warn) ==
    /\ calls' = Append(calls, step)
    /\ lastCall' = [code |-> r.code, killed |-> r.killed, step |-> step,
                    addrs |-> addrs, args |-> args, warned |-> warn]

Issue(step, addrs, r, warn) == IssueWith(step, addrs, <<>>, r, warn)

NoIssue == UNCHANGED <<calls, lastCall>>

Goto(next) == pc' = next /\ UNCHANGED <<err, errorLog>>

\* a catch block that logs the failure and lets the phase loop go on
runInitCatchContinue(error) ==
    /\ errorLog' = [message |-> error.message,
                    phase |-> createInitPhases[phaseIdx].name]
    /\ err' = error
    /\ pc' = "runInit"

\* a catch block that logs the message without the phase name
runInitCatchNoPhase(error) ==
    /\ errorLog' = [message |-> error.message, phase |-> "none"]
    /\ err' = error
    /\ pc' = "failed"

\* the catch block of runInit around phase.run: the phase name goes to the
\* error log and the caught error is thrown again
runInitCatch(error) ==
    /\ errorLog' = [message |-> error.message,
                    phase |-> createInitPhases[phaseIdx].name]
    /\ err' = error
    /\ pc' = "failed"

\* throw new Error(message) inside a phase body
Throw(message) == runInitCatch([message |-> message])

\* a step whose non-zero exit code is fatal
FatalCall(step, R, addrs, message, next) ==
    /\ pc = step
    /\ \E r \in R :
          /\ Issue(step, addrs, r, FALSE)
          /\ IF r.code # 0 THEN Throw(message) ELSE Goto(next)
    /\ UNCHANGED <<ctx, loc>>
    /\ StepFrame

\* a step whose non-zero exit code is logged as a warning
WarnCall(step, R, addrs, next) ==
    /\ pc = step
    /\ \E r \in R :
          /\ Issue(step, addrs, r, r.code # 0)
          /\ Goto(next)
    /\ UNCHANGED <<ctx, loc>>
    /\ StepFrame

\* a step whose result is not looked at
UncheckedCall(step, R, addrs, next) ==
    /\ pc = step
    /\ \E r \in R :
          /\ Issue(step, addrs, r, FALSE)
          /\ Goto(next)
    /\ UNCHANGED <<ctx, loc>>
    /\ StepFrame

\* a guard that returns or branches without issuing a command
Skip(step, next) ==
    /\ pc = step
    /\ Goto(next)
    /\ NoIssue
    /\ UNCHANGED <<ctx, loc>>
    /\ StepFrame

\* ------------------------------------------------------------------------
\* initCommand and runInit
\* ------------------------------------------------------------------------

\* toTestnodeFlags that hands the simple option on as it was given
toTestnodeFlagsKeepSimple(flags) ==
    [init |-> TRUE, force |-> flags.force,
     devNitro |-> flags.devNitro, devBlockscout |-> flags.devBlockscout,
     devContracts |-> flags.devContracts, build |-> flags.build,
     buildDevNitro |-> flags.buildDevNitro,
     buildDevBlockscout |-> flags.buildDevBlockscout,
     buildUtils |-> flags.buildUtils,
     forceBuildUtils |-> flags.forceBuildUtils,
     buildNodeImages |-> flags.buildNodeImages,
     validate |-> flags.validate, blockscout |-> flags.blockscout,
     tokenbridge |-> flags.tokenbridge,
     l3node |-> flags.l3node, l3FeeToken |-> flags.l3FeeToken,
     l3FeeTokenPricer |-> flags.l3FeeTokenPricer,
     l3FeeTokenDecimals |-> flags.l3FeeTokenDecimals,
     l3TokenBridge |-> flags.l3TokenBridge,
     l2Anytrust |-> flags.l2Anytrust, l2Timeboost |-> flags.l2Timeboost,
     batchposters |-> flags.batchposters,
     redundantsequencers |-> flags.redundantsequencers,
     pos |-> flags.pos,
     run |-> TRUE, detach |-> FALSE, nowait |-> FALSE,
     simple |-> flags.simple,
     l1Traffic |-> flags.l1Traffic, l2Traffic |-> flags.l2Traffic,
     l3Traffic |-> flags.l3Traffic, ci |-> flags.ci,
     verbose |-> flags.verbose]

toTestnodeFlags(flags) ==
    LET effectiveSimple ==
            IF \/ flags.devNitro \/ flags.devBlockscout
               \/ flags.validate
               \/ flags.batchposters > 1
               \/ flags.redundantsequencers > 0
            THEN FALSE ELSE flags.simple
    IN  [init |-> TRUE, force |-> flags.force,
         devNitro |-> flags.devNitro, devBlockscout |-> flags.devBlockscout,
         devContracts |-> flags.devContracts, build |-> flags.build,
         buildDevNitro |-> flags.buildDevNitro,
         buildDevBlockscout |-> flags.buildDevBlockscout,
         buildUtils |-> flags.buildUtils,
         forceBuildUtils |-> flags.forceBuildUtils,
         buildNodeImages |-> flags.buildNodeImages,
         validate |-> flags.validate, blockscout |-> flags.blockscout,
         tokenbridge |-> flags.tokenbridge,
         l3node |-> flags.l3node, l3FeeToken |-> flags.l3FeeToken,
         l3FeeTokenPricer |-> flags.l3FeeTokenPricer,
         l3FeeTokenDecimals |-> flags.l3FeeTokenDecimals,
         l3TokenBridge |-> flags.l3TokenBridge,
         l2Anytrust |-> flags.l2Anytrust, l2Timeboost |-> flags.l2Timeboost,
         batchposters |-> flags.batchposters,
         redundantsequencers |-> flags.redundantsequencers,
         pos |-> flags.pos,
         run |-> TRUE, detach |-> FALSE, nowait |-> FALSE,
         simple |-> effectiveSimple,
         l1Traffic |-> flags.l1Traffic, l2Traffic |-> flags.l2Traffic,
         l3Traffic |-> flags.l3Traffic, ci |-> flags.ci,
         verbose |-> flags.verbose]

\* initCommand without the validation gate
initCommandUnchecked ==
    /\ pc = "initCommand"
    /\ pc' = "runInit"
    /\ ctx' = newContext(toTestnodeFlags(input))
    /\ UNCHANGED <<err, errorLog>>
    /\ NoIssue
    /\ UNCHANGED loc
    /\ StepFrame

\* initCommand: convert, validate, throw on errors, else call runInit, whose
\* first statements build the context and the phase list
initCommand ==
    /\ pc = "initCommand"
    /\ LET testnodeFlags == toTestnodeFlags(input)
           validation == validateFlags(testnodeFlags)
       IN  IF ~validation.valid
           THEN /\ pc' = "rejected"
                /\ err' = [message |-> "Invalid flag configuration"]
                /\ errorLog' =
                      [message |-> validation.errors[Len(validation.errors)],
                       phase |-> "none"]
                /\ UNCHANGED ctx
           ELSE /\ pc' = "runInit"
                /\ ctx' = newContext(testnodeFlags)
                /\ UNCHANGED <<err, errorLog>>
    /\ NoIssue
    /\ UNCHANGED loc
    /\ StepFrame

\* one iteration of the phase loop of runInit: past the last phase the run
\* completes; a phase whose skip predicate holds is passed over; otherwise
\* the phase body is entered
runInit ==
    /\ pc = "runInit"
    /\ IF phaseIdx = Len(createInitPhases)
       THEN /\ pc' = "done"
            /\ UNCHANGED <<phaseIdx, started>>
       ELSE LET phase == createInitPhases[phaseIdx + 1]
            IN  /\ phaseIdx' = phaseIdx + 1
                /\ IF skip(phase, ctx)
                   THEN pc' = "runInit" /\ UNCHANGED started
                   ELSE /\ pc' = phase.run
                        /\ started' = Append(started, phase.name)
    /\ NoIssue
    /\ UNCHANGED <<pureVars, input, ctx, loc, err, errorLog, background>>

\* ------------------------------------------------------------------------
\* Phase "Cleanup existing data": cleanupExisting
\* ------------------------------------------------------------------------

\* composeDown: a non-zero code is only written to the debug log
cleanupExisting_down ==
    UncheckedCall("cleanupExisting_down", CapturedNone, {},
                  "cleanupExisting_lsContainers")

\* docker container ls: leftover ids are removed when the listing succeeded
cleanupExisting_lsContainers ==
    /\ pc = "cleanupExisting_lsContainers"
    /\ \E r \in CapturedList :
          /\ Issue("cleanupExisting_lsContainers", {}, r, FALSE)
          /\ IF r.code = 0 /\ trim(r.stdout) # <<>>
             THEN Goto("cleanupExisting_rmContainers")
             ELSE Goto("cleanupExisting_pruneVolumes")
    /\ UNCHANGED <<ctx, loc>>
    /\ StepFrame

cleanupExisting_rmContainers ==
    UncheckedCall("cleanupExisting_rmContainers", CapturedNone, {},
                  "cleanupExisting_pruneVolumes")

cleanupExisting_pruneVolumes ==
    UncheckedCall("cleanupExisting_pruneVolumes", CapturedNone, {},
                  "cleanupExisting_lsVolumes")

cleanupExisting_lsVolumes ==
    /\ pc = "cleanupExisting_lsVolumes"
    /\ \E r \in CapturedList :
          /\ Issue("cleanupExisting_lsVolumes", {}, r, FALSE)
          /\ IF r.code = 0 /\ trim(r.stdout) # <<>>
             THEN Goto("cleanupExisting_rmVolumes")
             ELSE Goto("runInit")
    /\ UNCHANGED <<ctx, loc>>
    /\ StepFrame

cleanupExisting_rmVolumes ==
    UncheckedCall("cleanupExisting_rmVolumes", CapturedNone, {},
                  "runInit")

\* ------------------------------------------------------------------------
\* Phase "Build docker images": buildDockerImages
\* ------------------------------------------------------------------------

\* tagImage and imageExists: a runWithCode call that answers yes when the
\* code is 0
Answered == Captured(OutNone)

buildDevNitro ==
    \/ /\ ~(ctx.flags.devNitro /\ ctx.flags.buildDevNitro)
       /\ Skip("buildDevNitro", "buildDevBlockscout")
    \/ /\ ctx.flags.devNitro /\ ctx.flags.buildDevNitro
       /\ FatalCall("buildDevNitro", Streamed, {},
                    "Failed to build dev nitro image", "buildDevBlockscout")

buildDevBlockscout ==
    \/ /\ ~(ctx.flags.devBlockscout /\ ctx.flags.buildDevBlockscout
            /\ ctx.flags.blockscout)
       /\ Skip("buildDevBlockscout", "buildUtilityImages")
    \/ /\ ctx.flags.devBlockscout /\ ctx.flags.buildDevBlockscout
       /\ ctx.flags.blockscout
       /\ FatalCall("buildDevBlockscout", Streamed, {},
                    "Failed to build dev blockscout image",
                    "buildUtilityImages")

\* buildx bake when process.env.CI is set, docker compose build otherwise
buildUtilityImages ==
    \/ /\ ~ctx.flags.buildUtils
       /\ Skip("buildUtilityImages", "setupNitroNodeImage")
    \/ /\ ctx.flags.buildUtils /\ input.envCI
       /\ FatalCall("buildUtilityImages", Streamed, {},
                    "Failed to build utility images with buildx bake",
                    "setupNitroNodeImage")
    \/ /\ ctx.flags.buildUtils /\ ~input.envCI
       /\ FatalCall("buildUtilityImages", Streamed, {},
                    "Failed to build utility images", "setupNitroNodeImage")

\* dev: tag the dev image; otherwise look for the released image first
setupNitroNodeImage ==
    \/ /\ ctx.flags.devNitro
       /\ FatalCall("setupNitroNodeImage", Answered, {},
                    "Failed to tag dev nitro image", "setupBlockscoutImage")
    \/ /\ ~ctx.flags.devNitro
       /\ pc = "setupNitroNodeImage"
       /\ \E r \in Answered :
             /\ Issue("setupNitroNodeImage", {}, r, FALSE)
             /\ IF r.code = 0 THEN Goto("setupNitroNodeImage_tag")
                ELSE Goto("setupNitroNodeImage_pull")
       /\ UNCHANGED <<ctx, loc>>
       /\ StepFrame

setupNitroNodeImage_pull ==
    FatalCall("setupNitroNodeImage_pull", Streamed, {},
              "Failed to pull nitro node image", "setupNitroNodeImage_tag")

setupNitroNodeImage_tag ==
    FatalCall("setupNitroNodeImage_tag", Answered, {},
              "Failed to tag nitro node image", "setupBlockscoutImage")

setupBlockscoutImage ==
    \/ /\ ~ctx.flags.blockscout
       /\ Skip("setupBlockscoutImage", "buildNodeImages")
    \/ /\ ctx.flags.blockscout /\ ctx.flags.devBlockscout
       /\ FatalCall("setupBlockscoutImage", Answered, {},
                    "Failed to tag dev blockscout image", "buildNodeImages")
    \/ /\ ctx.flags.blockscout /\ ~ctx.flags.devBlockscout
       /\ pc = "setupBlockscoutImage"
       /\ \E r \in Answered :
             /\ Issue("setupBlockscoutImage", {}, r, FALSE)
             /\ IF r.code = 0 THEN Goto("setupBlockscoutImage_tag")
                ELSE Goto("setupBlockscoutImage_pull")
       /\ UNCHANGED <<ctx, loc>>
       /\ StepFrame

setupBlockscoutImage_pull ==
    FatalCall("setupBlockscoutImage_pull", Streamed, {},
              "Failed to pull blockscout image", "setupBlockscoutImage_tag")

setupBlockscoutImage_tag ==
    FatalCall("setupBlockscoutImage_tag", Answered, {},
              "Failed to tag blockscout image", "buildNodeImages")

buildNodeImages ==
    \/ /\ ~ctx.flags.buildNodeImages
       /\ Skip("buildNodeImages", "runInit")
    \/ /\ ctx.flags.buildNodeImages
       /\ FatalCall("buildNodeImages", Streamed, {},
                    "Failed to build node images", "runInit")

\* ------------------------------------------------------------------------
\* Phase "Setup L1 chain": setupL1
\* ------------------------------------------------------------------------

generateL1Keys_writeAccounts ==
    FatalCall("generateL1Keys_writeAccounts", CapturedNone, {},
              "Failed to write accounts", "generateL1Keys_passphrase")

generateL1Keys_passphrase ==
    FatalCall("generateL1Keys_passphrase", CapturedNone, {},
              "Failed to create passphrase", "generateL1Keys_keystore")

generateL1Keys_keystore ==
    FatalCall("generateL1Keys_keystore", CapturedNone, {},
              "Failed to fix keystore ownership", "generateL1Keys_config")

generateL1Keys_config ==
    FatalCall("generateL1Keys_config", CapturedNone, {},
              "Failed to fix config ownership", "writeGethGenesis")

writeGethGenesis ==
    FatalCall("writeGethGenesis", CapturedNone, {},
              "Failed to write geth genesis config", "setupPrysm")

\* setupPrysm returns at once unless --pos; its first step is
\* writePrysmConfig
setupPrysm ==
    \/ /\ ~ctx.flags.pos
       /\ Skip("setupPrysm", "initializeGeth")
    \/ /\ ctx.flags.pos
       /\ pc = "setupPrysm"
       /\ \E r \in CapturedNone :
             /\ Issue("writePrysmConfig", {}, r, FALSE)
             /\ IF r.code # 0 THEN Throw("Failed to write Prysm config")
                ELSE Goto("createBeaconChainGenesis")
       /\ UNCHANGED <<ctx, loc>>
       /\ StepFrame

createBeaconChainGenesis ==
    FatalCall("createBeaconChainGenesis", CapturedNone, {},
              "Failed to create beacon chain genesis", "startBeaconChain")

startBeaconChain ==
    FatalCall("startBeaconChain", Streamed, {},
              "Failed to start Prysm beacon chain", "startValidator")

startValidator ==
    FatalCall("startValidator", Streamed, {},
              "Failed to start Prysm validator", "initializeGeth")

\* initializeGeth followed at once by the wait for sync
initializeGethThenSync ==
    FatalCall("initializeGeth", CapturedNone, {},
              "Failed to initialize geth", "startGeth_sync")

initializeGeth ==
    FatalCall("initializeGeth", CapturedNone, {},
              "Failed to initialize geth", "startGeth_up")

startGeth_up ==
    FatalCall("startGeth_up", Streamed, {},
              "Failed to start geth", "startGeth_sync")

\* wait-for-sync, with the 2 minute timeout
startGeth_sync ==
    FatalCall("startGeth_sync", CapturedNone, {},
              "Geth sync failed", "fundAccounts")

\* the accounts funded on L1, in loop order
fundAccountsList == <<"validator", "sequencer", "l2owner">>
fundAccountsStep ==
    <<"fundAccounts_validator", "fundAccounts_sequencer",
      "fundAccounts_l2owner">>
fundAccountsError ==
    <<"Failed to fund validator", "Failed to fund sequencer",
      "Failed to fund l2owner">>

\* one iteration of the funding loop; loc.i accounts are already funded
fundAccounts ==
    /\ pc = "fundAccounts"
    /\ \E r \in CapturedNone :
          /\ Issue(fundAccountsStep[loc.i + 1], {}, r, FALSE)
          /\ IF r.code # 0
             THEN Throw(fundAccountsError[loc.i + 1]) /\ UNCHANGED loc
             ELSE IF loc.i + 1 < Len(fundAccountsList)
                  THEN Goto("fundAccounts")
                       /\ loc' = [loc EXCEPT !.i = loc.i + 1]
                  ELSE Goto("getL2OwnerAddress") /\ loc' = NoLoc
    /\ UNCHANGED ctx
    /\ StepFrame

\* print-address l2owner: the cleaned last line must start with 0x
getL2OwnerAddress ==
    /\ pc = "getL2OwnerAddress"
    /\ \E r \in CapturedAddress :
          /\ Issue("getL2OwnerAddress", {}, r, FALSE)
          /\ LET address == cleanOutput(getLastLine(r.stdout))
             IN  IF r.code # 0
                 THEN Throw("Failed to get l2owner address")
                      /\ UNCHANGED ctx
                 ELSE IF ~validAddress(address)
                 THEN Throw("Invalid l2owner address") /\ UNCHANGED ctx
                 ELSE /\ ctx' = [ctx EXCEPT !.l2OwnerAddress = address]
                      /\ Goto("runInit")
    /\ UNCHANGED loc
    /\ StepFrame

\* ------------------------------------------------------------------------
\* Phase "Deploy L2 chain": deployL2 and setupAnyTrust
\* ------------------------------------------------------------------------

getSequencerAddress ==
    /\ pc = "getSequencerAddress"
    /\ \E r \in CapturedAddress :
          /\ Issue("getSequencerAddress", {}, r, FALSE)
          /\ LET address == cleanOutput(getLastLine(r.stdout))
             IN  IF r.code # 0
                 THEN Throw("Failed to get sequencer address")
                      /\ UNCHANGED ctx
                 ELSE IF ~validAddress(address)
                 THEN Throw("Invalid sequencer address") /\ UNCHANGED ctx
                 ELSE /\ ctx' = [ctx EXCEPT !.sequencerAddress = address]
                      /\ Goto("getL2OwnerKey")
    /\ UNCHANGED loc
    /\ StepFrame

\* print-private-key l2owner: the cleaned last line must not be empty
getL2OwnerKey ==
    /\ pc = "getL2OwnerKey"
    /\ \E r \in CapturedValue :
          /\ Issue("getL2OwnerKey", {}, r, FALSE)
          /\ LET key == cleanOutput(getLastLine(r.stdout))
             IN  IF r.code # 0
                 THEN Throw("Failed to get l2owner private key")
                      /\ UNCHANGED ctx
                 ELSE IF key = <<>>
                 THEN Throw("Invalid l2owner private key") /\ UNCHANGED ctx
                 ELSE /\ ctx' = [ctx EXCEPT !.l2OwnerKey = key]
                      /\ Goto("getWasmRoot")
    /\ UNCHANGED loc
    /\ StepFrame

\* module-root.txt: the cleaned stdout must not be empty
getWasmRoot ==
    /\ pc = "getWasmRoot"
    /\ \E r \in CapturedValue :
          /\ Issue("getWasmRoot", {}, r, FALSE)
          /\ LET wasmRoot == cleanOutput(r.stdout)
             IN  IF r.code # 0
                 THEN Throw("Failed to get WASM module root")
                      /\ UNCHANGED ctx
                 ELSE IF wasmRoot = <<>>
                 THEN Throw("Invalid WASM module root") /\ UNCHANGED ctx
                 ELSE /\ ctx' = [ctx EXCEPT !.wasmRoot = wasmRoot]
                      /\ Goto("writeL2ChainConfig")
    /\ UNCHANGED loc
    /\ StepFrame

writeL2ChainConfig ==
    /\ pc = "writeL2ChainConfig"
    /\ IF Falsy(ctx.l2OwnerAddress)
       THEN Throw("L2 owner address not set") /\ NoIssue
       ELSE \E r \in CapturedNone :
               /\ Issue("writeL2ChainConfig", {ctx.l2OwnerAddress}, r, FALSE)
               /\ IF r.code # 0
                  THEN Throw("Failed to write L2 chain config")
                  ELSE Goto("deployRollup")
    /\ UNCHANGED <<ctx, loc>>
    /\ StepFrame

\* deployRollup with the owner address in the place of the owner key
deployRollupKeyFromAddress ==
    /\ pc = "deployRollup"
    /\ IF \/ Falsy(ctx.l2OwnerAddress) \/ Falsy(ctx.l2OwnerKey)
          \/ Falsy(ctx.sequencerAddress) \/ Falsy(ctx.wasmRoot)
       THEN Throw("Missing required context values for rollup deployment")
            /\ NoIssue
       ELSE \E r \in CapturedNone :
               /\ IssueWith("deployRollup",
                            {ctx.l2OwnerAddress, ctx.sequencerAddress},
                            << <<"DEPLOYER_PRIVKEY", ctx.l2OwnerAddress>>,
                               <<"PARENT_CHAIN_ID", ctx.l1ChainId>>,
                               <<"OWNER_ADDRESS", ctx.l2OwnerAddress>>,
                               <<"WASM_MODULE_ROOT", ctx.wasmRoot>>,
                               <<"SEQUENCER_ADDRESS", ctx.sequencerAddress>>,
                               <<"AUTHORIZE_VALIDATORS", 10>> >>,
                            r, FALSE)
               /\ IF r.code # 0 THEN Throw("Failed to deploy rollup")
                  ELSE Goto("processDeployedChainInfo")
    /\ UNCHANGED <<ctx, loc>>
    /\ StepFrame

\* create-rollup-testnode with the environment bundle, 5 minute timeout;
\* of the bundle: the values taken from the context, the chain id and the
\* validator count
deployRollup ==
    /\ pc = "deployRollup"
    /\ IF \/ Falsy(ctx.l2OwnerAddress) \/ Falsy(ctx.l2OwnerKey)
          \/ Falsy(ctx.sequencerAddress) \/ Falsy(ctx.wasmRoot)
       THEN Throw("Missing required context values for rollup deployment")
            /\ NoIssue
       ELSE \E r \in CapturedNone :
               /\ IssueWith("deployRollup",
                            {ctx.l2OwnerAddress, ctx.sequencerAddress},
                            << <<"DEPLOYER_PRIVKEY", ctx.l2OwnerKey>>,
                               <<"PARENT_CHAIN_ID", ctx.l1ChainId>>,
                               <<"OWNER_ADDRESS", ctx.l2OwnerAddress>>,
                               <<"WASM_MODULE_ROOT", ctx.wasmRoot>>,
                               <<"SEQUENCER_ADDRESS", ctx.sequencerAddress>>,
                               <<"AUTHORIZE_VALIDATORS", 10>> >>,
                            r, FALSE)
               /\ IF r.code # 0 THEN Throw("Failed to deploy rollup")
                  ELSE Goto("processDeployedChainInfo")
    /\ UNCHANGED <<ctx, loc>>
    /\ StepFrame

processDeployedChainInfo ==
    FatalCall("processDeployedChainInfo", CapturedNone, {},
              "Failed to process deployed chain info", "setupAnyTrust")

\* setupAnyTrust returns undefined unless --l2-anytrust, and the phase body
\* stores what deployL2 returns in ctx.anyTrustConfig; otherwise its first
\* step creates the committee directories
setupAnyTrust ==
    /\ pc = "setupAnyTrust"
    /\ IF ~ctx.flags.l2Anytrust
       THEN /\ ctx' = [ctx EXCEPT !.anyTrustConfig = Undef]
            /\ Goto("runInit")
            /\ NoIssue
       ELSE \E r \in CapturedNone :
               /\ Issue("createDasDirectories_mkdir", {}, r, FALSE)
               /\ IF r.code # 0
                  THEN Throw("Failed to create DAS directories")
                  ELSE Goto("createDasDirectories_chown")
               /\ UNCHANGED ctx
    /\ UNCHANGED loc
    /\ StepFrame

createDasDirectories_chown ==
    FatalCall("createDasDirectories_chown", CapturedNone, {},
              "Failed to fix DAS directory ownership", "generateDasKeys_A")

generateDasKeys_A ==
    FatalCall("generateDasKeys_A", CapturedNone, {},
              "Failed to generate committee A keys", "generateDasKeys_B")

generateDasKeys_B ==
    FatalCall("generateDasKeys_B", CapturedNone, {},
              "Failed to generate committee B keys",
              "writeDasConfigs_committee")

writeDasConfigs_committee ==
    FatalCall("writeDasConfigs_committee", CapturedNone, {},
              "Failed to write DAS committee config",
              "writeDasConfigs_mirror")

writeDasConfigs_mirror ==
    FatalCall("writeDasConfigs_mirror", CapturedNone, {},
              "Failed to write DAS mirror config", "readBlsKeys_A")

\* the public keys are the cleaned stdout, taken as they come
readBlsKeys_A ==
    /\ pc = "readBlsKeys_A"
    /\ \E r \in CapturedValue :
          /\ Issue("readBlsKeys_A", {}, r, FALSE)
          /\ IF r.code # 0
             THEN Throw("Failed to read committee A BLS key")
                  /\ UNCHANGED loc
             ELSE /\ loc' = [loc EXCEPT !.dasBlsA = cleanOutput(r.stdout)]
                  /\ Goto("readBlsKeys_B")
    /\ UNCHANGED ctx
    /\ StepFrame

readBlsKeys_B ==
    /\ pc = "readBlsKeys_B"
    /\ \E r \in CapturedValue :
          /\ Issue("readBlsKeys_B", {}, r, FALSE)
          /\ IF r.code # 0
             THEN Throw("Failed to read committee B BLS key")
                  /\ UNCHANGED loc
             ELSE /\ loc' = [loc EXCEPT !.dasBlsB = cleanOutput(r.stdout)]
                  /\ Goto("writeKeysetConfig_write")
    /\ UNCHANGED ctx
    /\ StepFrame

writeKeysetConfig_write ==
    FatalCall("writeKeysetConfig_write", CapturedNone, {},
              "Failed to write DAS keyset config", "writeKeysetConfig_dump")

writeKeysetConfig_dump ==
    FatalCall("writeKeysetConfig_dump", CapturedNone, {},
              "Failed to dump keyset", "setValidKeyset")

\* set-valid-keyset, 2 minute timeout; when the services are not to be
\* started this is the last step of setupAnyTrust
setValidKeyset ==
    /\ pc = "setValidKeyset"
    /\ \E r \in CapturedNone :
          /\ Issue("setValidKeyset", {}, r, FALSE)
          /\ IF r.code # 0
             THEN Throw("Failed to set valid keyset")
                  /\ UNCHANGED <<ctx, loc>>
             ELSE IF ctx.flags.run # FALSE
             THEN Goto("startAnyTrustServices") /\ UNCHANGED <<ctx, loc>>
             ELSE /\ ctx' = [ctx EXCEPT
                               !.anyTrustConfig = <<loc.dasBlsA, loc.dasBlsB>>]
                  /\ loc' = NoLoc
                  /\ Goto("runInit")
    /\ StepFrame

\* the committee and mirror services; setupAnyTrust then returns the two
\* keys, which the phase body stores in ctx.anyTrustConfig
startAnyTrustServices ==
    /\ pc = "startAnyTrustServices"
    /\ \E r \in Streamed :
          /\ Issue("startAnyTrustServices", {}, r, FALSE)
          /\ IF r.code # 0
             THEN Throw("Failed to start AnyTrust services")
                  /\ UNCHANGED <<ctx, loc>>
             ELSE /\ ctx' = [ctx EXCEPT
                               !.anyTrustConfig = <<loc.dasBlsA, loc.dasBlsB>>]
                  /\ loc' = NoLoc
                  /\ Goto("runInit")
    /\ StepFrame

\* ------------------------------------------------------------------------
\* Phase "Configure L2 nodes": configureL2Nodes, setupTimeboost
\* ------------------------------------------------------------------------

\* the extraction deployBiddingToken, deployAuctionContract and
\* deployCustomFeeToken apply to the stdout of a successful command: the
\* last word of the last line, rejected unless it starts with 0x
extractAddress(stdout) ==
    LET address == lastWordOfLastLine(stdout)
    IN  [value |-> address, threw |-> ~validAddress(address)]

\* buildAnyTrustConfigArgs with the two keys exchanged
buildAnyTrustConfigArgsSwapped(config) ==
    << <<"--anytrust">>, <<"--dasBlsA", config[2]>>,
       <<"--dasBlsB", config[1]>> >>

\* the options of write-config for AnyTrust, each with its value
buildAnyTrustConfigArgs(config) ==
    << <<"--anytrust">>, <<"--dasBlsA", config[1]>>,
       <<"--dasBlsB", config[2]>> >>

\* an AnyTrustConfig object is truthy whatever its keys hold
buildConfigArgs(c) ==
    (IF c.flags.simple THEN << <<"--simple">> >> ELSE <<>>)
    \o (IF c.flags.l2Anytrust /\ c.anyTrustConfig # Undef
        THEN buildAnyTrustConfigArgs(c.anyTrustConfig) ELSE <<>>)
    \o (IF c.flags.l2Timeboost THEN << <<"--timeboost">> >> ELSE <<>>)

\* writeNodeConfigs that takes the AnyTrust config out of the context once
\* the arguments are built
writeNodeConfigsConsumes ==
    /\ pc = "writeNodeConfigs"
    /\ \E r \in CapturedNone :
          /\ IssueWith("writeNodeConfigs", {}, buildConfigArgs(ctx), r, FALSE)
          /\ IF r.code # 0 THEN Throw("Failed to write node configs")
             ELSE Goto("initializeRedis")
    /\ ctx' = [ctx EXCEPT !.anyTrustConfig = Undef]
    /\ UNCHANGED loc
    /\ StepFrame

\* write-config with the arguments of buildConfigArgs
writeNodeConfigs ==
    /\ pc = "writeNodeConfigs"
    /\ \E r \in CapturedNone :
          /\ IssueWith("writeNodeConfigs", {}, buildConfigArgs(ctx), r, FALSE)
          /\ IF r.code # 0 THEN Throw("Failed to write node configs")
             ELSE Goto("initializeRedis")
    /\ UNCHANGED <<ctx, loc>>
    /\ StepFrame

\* initializeRedis without the redis-init command
initializeRedisNoInit ==
    /\ pc = "initializeRedis"
    /\ IF ctx.flags.simple
       THEN Goto("startSequencersAndFund_up") /\ NoIssue
       ELSE \E r \in Streamed :
               /\ Issue("initializeRedis_up", {}, r, FALSE)
               /\ IF r.code # 0 THEN Throw("Failed to start redis")
                  ELSE Goto("startSequencersAndFund_up")
    /\ UNCHANGED <<ctx, loc>>
    /\ StepFrame

initializeRedis ==
    /\ pc = "initializeRedis"
    /\ IF ctx.flags.simple
       THEN Goto("startSequencersAndFund_up") /\ NoIssue
       ELSE \E r \in Streamed :
               /\ Issue("initializeRedis_up", {}, r, FALSE)
               /\ IF r.code # 0 THEN Throw("Failed to start redis")
                  ELSE Goto("initializeRedis_init")
    /\ UNCHANGED <<ctx, loc>>
    /\ StepFrame

initializeRedis_init ==
    FatalCall("initializeRedis_init", CapturedNone, {},
              "Failed to initialize redis", "startSequencersAndFund_up")

startSequencersAndFund_up ==
    FatalCall("startSequencersAndFund_up", Streamed, {},
              "Failed to start sequencer nodes",
              "startSequencersAndFund_bridge")

startSequencersAndFund_bridge ==
    FatalCall("startSequencersAndFund_bridge", CapturedNone, {},
              "Failed to bridge funds", "startSequencersAndFund_send")

startSequencersAndFund_send ==
    FatalCall("startSequencersAndFund_send", CapturedNone, {},
              "Failed to fund l2owner on L2", "setupTimeboost")

\* setupTimeboost returns at once unless --l2-timeboost; its first step
\* funds the auctioneer
setupTimeboost ==
    /\ pc = "setupTimeboost"
    /\ IF ~ctx.flags.l2Timeboost
       THEN Goto("deployTokenBridge") /\ NoIssue
       ELSE \E r \in CapturedNone :
               /\ Issue("fundAuctioneer", {}, r, FALSE)
               /\ IF r.code # 0 THEN Throw("Failed to fund auctioneer")
                  ELSE Goto("deployBiddingToken")
    /\ UNCHANGED <<ctx, loc>>
    /\ StepFrame

deployBiddingToken ==
    /\ pc = "deployBiddingToken"
    /\ \E r \in CapturedLastWord :
          /\ Issue("deployBiddingToken", {}, r, FALSE)
          /\ LET tokenAddress == extractAddress(r.stdout)
             IN  IF r.code # 0
                 THEN Throw("Failed to deploy bidding token")
                      /\ UNCHANGED loc
                 ELSE IF tokenAddress.threw
                 THEN Throw("Invalid bidding token address")
                      /\ UNCHANGED loc
                 ELSE /\ loc' = [loc EXCEPT
                                   !.biddingTokenAddress = tokenAddress.value]
                      /\ Goto("deployAuctionContract")
    /\ UNCHANGED ctx
    /\ StepFrame

deployAuctionContract ==
    /\ pc = "deployAuctionContract"
    /\ \E r \in CapturedLastWord :
          /\ Issue("deployAuctionContract", {loc.biddingTokenAddress}, r,
                   FALSE)
          /\ LET auctionAddress == extractAddress(r.stdout)
             IN  IF r.code # 0
                 THEN Throw("Failed to deploy auction contract")
                      /\ UNCHANGED loc
                 ELSE IF auctionAddress.threw
                 THEN Throw("Invalid auction contract address")
                      /\ UNCHANGED loc
                 ELSE /\ loc' = [loc EXCEPT !.auctionContractAddress =
                                                 auctionAddress.value]
                      /\ Goto("getAuctioneerAddress")
    /\ UNCHANGED ctx
    /\ StepFrame

getAuctioneerAddress ==
    /\ pc = "getAuctioneerAddress"
    /\ \E r \in CapturedAddress :
          /\ Issue("getAuctioneerAddress", {}, r, FALSE)
          /\ LET address == cleanOutput(getLastLine(r.stdout))
             IN  IF r.code # 0
                 THEN Throw("Failed to get auctioneer address")
                      /\ UNCHANGED loc
                 ELSE IF ~validAddress(address)
                 THEN Throw("Invalid auctioneer address") /\ UNCHANGED loc
                 ELSE /\ loc' = [loc EXCEPT !.auctioneerAddress = address]
                      /\ Goto("writeTimeboostConfigs")
    /\ UNCHANGED ctx
    /\ StepFrame

writeTimeboostConfigs ==
    FatalCall("writeTimeboostConfigs", CapturedNone,
              {loc.auctionContractAddress},
              "Failed to write timeboost configs",
              "fixAuctioneerPermissions")

fixAuctioneerPermissions ==
    WarnCall("fixAuctioneerPermissions", CapturedNone, {},
             "fundTestAccounts_aliceEth")

fundTestAccounts_aliceEth ==
    FatalCall("fundTestAccounts_aliceEth", CapturedNone, {},
              "Failed to fund alice with ETH", "fundTestAccounts_bobEth")

fundTestAccounts_bobEth ==
    FatalCall("fundTestAccounts_bobEth", CapturedNone, {},
              "Failed to fund bob with ETH", "fundTestAccounts_aliceToken")

fundTestAccounts_aliceToken ==
    FatalCall("fundTestAccounts_aliceToken", CapturedNone,
              {loc.biddingTokenAddress},
              "Failed to transfer tokens to alice",
              "fundTestAccounts_bobToken")

fundTestAccounts_bobToken ==
    FatalCall("fundTestAccounts_bobToken", CapturedNone,
              {loc.biddingTokenAddress},
              "Failed to transfer tokens to bob", "updateSequencerConfig")

updateSequencerConfig ==
    FatalCall("updateSequencerConfig", CapturedNone,
              {loc.auctionContractAddress, loc.auctioneerAddress},
              "Failed to update sequencer config", "restartSequencers")

\* restartSequencers with a failed restart thrown as an error
restartSequencersFatal ==
    /\ pc = "restartSequencers"
    /\ \E r \in CapturedNone :
          /\ IssueWith("restartSequencers", {},
                       calculateInitialSequencerNodes(ctx.flags), r, FALSE)
          /\ IF r.code # 0
             THEN Throw("Failed to restart sequencers") /\ UNCHANGED loc
             ELSE Goto("deployTokenBridge") /\ loc' = NoLoc
    /\ UNCHANGED ctx
    /\ StepFrame

\* docker compose restart of the initial sequencers, 2 minute timeout; a
\* failure is a warning and setupTimeboost returns its config
restartSequencers ==
    /\ pc = "restartSequencers"
    /\ \E r \in CapturedNone :
          /\ IssueWith("restartSequencers", {},
                       calculateInitialSequencerNodes(ctx.flags), r,
                       r.code # 0)
          /\ Goto("deployTokenBridge")
    /\ loc' = NoLoc
    /\ UNCHANGED ctx
    /\ StepFrame

\* ------------------------------------------------------------------------
\* deployTokenBridge and deployPostDeployContracts
\* ------------------------------------------------------------------------

\* returns at once unless --tokenbridge; needs ctx.l2OwnerKey; its first
\* step reads the rollup address with jq, which is used as it is printed
deployTokenBridge ==
    /\ pc = "deployTokenBridge"
    /\ IF ~ctx.flags.tokenbridge
       THEN Goto("deployPostDeployContracts") /\ NoIssue /\ UNCHANGED loc
       ELSE IF Falsy(ctx.l2OwnerKey)
       THEN Throw("L2 owner key not available for token bridge deployment")
            /\ NoIssue /\ UNCHANGED loc
       ELSE \E r \in CapturedRollup :
               /\ Issue("deployTokenBridge_rollup", {}, r, FALSE)
               /\ IF r.code # 0
                  THEN Throw("Failed to get rollup address")
                       /\ UNCHANGED loc
                  ELSE /\ loc' = [loc EXCEPT !.rollupAddress = trim(r.stdout)]
                       /\ Goto("deployTokenBridge_deploy")
    /\ UNCHANGED ctx
    /\ StepFrame

\* deploy:local:token-bridge with ROLLUP_ADDRESS, 5 minute timeout
deployTokenBridge_deploy ==
    FatalCall("deployTokenBridge_deploy", CapturedNone,
              {loc.rollupAddress}, "Failed to deploy token bridge",
              "deployTokenBridge_copy")

deployTokenBridge_copy ==
    /\ pc = "deployTokenBridge_copy"
    /\ \E r \in CapturedNone :
          /\ Issue("deployTokenBridge_copy", {}, r, r.code # 0)
          /\ Goto("deployPostDeployContracts")
    /\ loc' = NoLoc
    /\ UNCHANGED ctx
    /\ StepFrame

\* needs ctx.l2OwnerKey; the cache manager deployment is best effort
deployPostDeployContracts ==
    /\ pc = "deployPostDeployContracts"
    /\ IF Falsy(ctx.l2OwnerKey)
       THEN Throw("L2 owner key not available") /\ NoIssue
       ELSE \E r \in CapturedNone :
               /\ Issue("deployPostDeployContracts_cache", {}, r, r.code # 0)
               /\ Goto("deployPostDeployContracts_stylus")
    /\ UNCHANGED <<ctx, loc>>
    /\ StepFrame

deployPostDeployContracts_stylus ==
    WarnCall("deployPostDeployContracts_stylus", CapturedNone, {},
             "deployPostDeployContracts_gasL1")

\* the gas estimation workaround: the two results are not looked at
deployPostDeployContracts_gasL1 ==
    UncheckedCall("deployPostDeployContracts_gasL1", CapturedNone, {},
                  "deployPostDeployContracts_gasL2")

deployPostDeployContracts_gasL2 ==
    UncheckedCall("deployPostDeployContracts_gasL2", CapturedNone, {},
                  "deployL3")

\* ------------------------------------------------------------------------
\* deployL3 (last step of configureL2Nodes)
\* ------------------------------------------------------------------------

\* stdout of a command that prints a network file: nothing, a document
\* without the members that are read, a document with them
OutNetwork == {<<>>, <<"{", "}">>, <<"{", "W", "C", "}">>}
CapturedNetwork == Captured(OutNetwork)

\* JSON.parse of a network file, reduced to: it parses when it is an object,
\* and a member that is present holds an address named after it
jsonParses(stdout) == stdout # <<>> /\ Head(stdout) = "{"

jsonMember(stdout, m) ==
    IF \E i \in DOMAIN stdout : stdout[i] = m THEN <<"0", "x", m>> ELSE <<>>

\* returns at once unless --l3node
deployL3 ==
    /\ pc = "deployL3"
    /\ IF ~ctx.flags.l3node THEN Goto("runInit") ELSE Goto("fundL3Users")
    /\ NoIssue
    /\ UNCHANGED <<ctx, loc>>
    /\ StepFrame

fundL3UsersList == <<"validator", "l3owner", "l3sequencer">>
fundL3UsersStep ==
    <<"fundL3Users_validator", "fundL3Users_l3owner",
      "fundL3Users_l3sequencer">>
fundL3UsersError ==
    <<"Failed to fund validator", "Failed to fund l3owner",
      "Failed to fund l3sequencer">>

\* one iteration of the funding loop; loc.i accounts are already funded
fundL3Users ==
    /\ pc = "fundL3Users"
    /\ \E r \in CapturedNone :
          /\ Issue(fundL3UsersStep[loc.i + 1], {}, r, FALSE)
          /\ IF r.code # 0
             THEN Throw(fundL3UsersError[loc.i + 1]) /\ UNCHANGED loc
             ELSE IF loc.i + 1 < Len(fundL3UsersList)
                  THEN Goto("fundL3Users")
                       /\ loc' = [loc EXCEPT !.i = loc.i + 1]
                  ELSE Goto("fundL2Deployers_l1")
                       /\ loc' = [loc EXCEPT !.i = 0]
    /\ UNCHANGED ctx
    /\ StepFrame

fundL2Deployers_l1 ==
    FatalCall("fundL2Deployers_l1", CapturedNone, {},
              "Failed to fund deployer on L1", "fundL2Deployers_l2")

fundL2Deployers_l2 ==
    FatalCall("fundL2Deployers_l2", CapturedNone, {},
              "Failed to fund deployer on L2", "fundTokenDeployer_l1")

\* deployL3 calls fundTokenDeployer whatever the fee token flag is
fundTokenDeployer_l1 ==
    FatalCall("fundTokenDeployer_l1", CapturedNone, {},
              "Failed to fund token deployer on L1", "fundTokenDeployer_l2")

fundTokenDeployer_l2 ==
    FatalCall("fundTokenDeployer_l2", CapturedNone, {},
              "Failed to fund token deployer on L2", "getL3OwnerAddress")

getL3OwnerAddress ==
    /\ pc = "getL3OwnerAddress"
    /\ \E r \in CapturedAddress :
          /\ Issue("getL3OwnerAddress", {}, r, FALSE)
          /\ LET address == cleanOutput(getLastLine(r.stdout))
             IN  IF r.code # 0
                 THEN Throw("Failed to get l3owner address")
                      /\ UNCHANGED loc
                 ELSE IF ~validAddress(address)
                 THEN Throw("Invalid l3owner address") /\ UNCHANGED loc
                 ELSE /\ loc' = [loc EXCEPT !.l3OwnerAddress = address]
                      /\ Goto("writeL3ChainConfig")
    /\ UNCHANGED ctx
    /\ StepFrame

writeL3ChainConfig ==
    FatalCall("writeL3ChainConfig", CapturedNone,
              {loc.l3OwnerAddress}, "Failed to write L3 chain config",
              "deployCustomFeeToken")

\* returns {} at once unless --l3-fee-token; its first step creates the
\* ERC20 token and extracts its address
deployCustomFeeToken ==
    /\ pc = "deployCustomFeeToken"
    /\ IF ~ctx.flags.l3FeeToken
       THEN Goto("getL3OwnerKey") /\ NoIssue /\ UNCHANGED loc
       ELSE \E r \in CapturedLastWord :
               /\ Issue("deployCustomFeeToken_create", {}, r, FALSE)
               /\ LET nativeTokenAddress == extractAddress(r.stdout)
                  IN  IF r.code # 0
                      THEN Throw("Failed to create fee token")
                           /\ UNCHANGED loc
                      ELSE IF nativeTokenAddress.threw
                      THEN Throw("Invalid fee token address")
                           /\ UNCHANGED loc
                      ELSE /\ loc' = [loc EXCEPT !.nativeTokenAddress =
                                          nativeTokenAddress.value]
                           /\ Goto("deployCustomFeeToken_toOwner")
    /\ UNCHANGED ctx
    /\ StepFrame

deployCustomFeeToken_toOwner ==
    FatalCall("deployCustomFeeToken_toOwner", CapturedNone,
              {loc.nativeTokenAddress},
              "Failed to transfer tokens to l3owner",
              "deployCustomFeeToken_toDeployer")

deployCustomFeeToken_toDeployer ==
    /\ pc = "deployCustomFeeToken_toDeployer"
    /\ \E r \in CapturedNone :
          /\ Issue("deployCustomFeeToken_toDeployer",
                   {loc.nativeTokenAddress}, r, FALSE)
          /\ IF r.code # 0
             THEN Throw("Failed to transfer tokens to bridge deployer")
             ELSE IF ctx.flags.l3FeeTokenPricer
                  THEN Goto("deployCustomFeeToken_pricer")
                  ELSE Goto("getL3OwnerKey")
    /\ UNCHANGED <<ctx, loc>>
    /\ StepFrame

deployCustomFeeToken_pricer ==
    /\ pc = "deployCustomFeeToken_pricer"
    /\ \E r \in CapturedLastWord :
          /\ Issue("deployCustomFeeToken_pricer", {}, r, FALSE)
          /\ LET feeTokenPricerAddress == extractAddress(r.stdout)
             IN  IF r.code # 0
                 THEN Throw("Failed to deploy fee token pricer")
                      /\ UNCHANGED loc
                 ELSE IF feeTokenPricerAddress.threw
                 THEN Throw("Invalid fee token pricer address")
                      /\ UNCHANGED loc
                 ELSE /\ loc' = [loc EXCEPT !.feeTokenPricerAddress =
                                     feeTokenPricerAddress.value]
                      /\ Goto("getL3OwnerKey")
    /\ UNCHANGED ctx
    /\ StepFrame

getL3OwnerKey ==
    /\ pc = "getL3OwnerKey"
    /\ \E r \in CapturedValue :
          /\ Issue("getL3OwnerKey", {}, r, FALSE)
          /\ LET key == cleanOutput(getLastLine(r.stdout))
             IN  IF r.code # 0
                 THEN Throw("Failed to get l3owner private key")
                      /\ UNCHANGED loc
                 ELSE IF key = <<>>
                 THEN Throw("Invalid l3owner private key") /\ UNCHANGED loc
                 ELSE /\ loc' = [loc EXCEPT !.l3OwnerKey = key]
                      /\ Goto("getL3SequencerAddress")
    /\ UNCHANGED ctx
    /\ StepFrame

getL3SequencerAddress ==
    /\ pc = "getL3SequencerAddress"
    /\ \E r \in CapturedAddress :
          /\ Issue("getL3SequencerAddress", {}, r, FALSE)
          /\ LET address == cleanOutput(getLastLine(r.stdout))
             IN  IF r.code # 0
                 THEN Throw("Failed to get l3sequencer address")
                      /\ UNCHANGED loc
                 ELSE IF ~validAddress(address)
                 THEN Throw("Invalid l3sequencer address") /\ UNCHANGED loc
                 ELSE /\ loc' = [loc EXCEPT !.l3SequencerAddress = address]
                      /\ Goto("deployL3Rollup_deploy")
    /\ UNCHANGED ctx
    /\ StepFrame

\* the addresses of the L3 deployment config that are set
L3ConfigAddresses ==
    {loc.l3OwnerAddress, loc.l3SequencerAddress}
    \cup (IF Falsy(loc.nativeTokenAddress) THEN {}
          ELSE {loc.nativeTokenAddress})
    \cup (IF Falsy(loc.feeTokenPricerAddress) THEN {}
          ELSE {loc.feeTokenPricerAddress})

\* envVars of deployL3Rollup with both fee token variables always added
envVarsL3Always ==
    << <<"DEPLOYER_PRIVKEY", loc.l3OwnerKey>>,
       <<"OWNER_ADDRESS", loc.l3OwnerAddress>>,
       <<"WASM_MODULE_ROOT",
         IF Falsy(ctx.wasmRoot) THEN <<>> ELSE ctx.wasmRoot>>,
       <<"SEQUENCER_ADDRESS", loc.l3SequencerAddress>>,
       <<"FEE_TOKEN_ADDRESS", loc.nativeTokenAddress>>,
       <<"FEE_TOKEN_PRICER_ADDRESS", loc.feeTokenPricerAddress>> >>

\* envVars of deployL3Rollup: WASM_MODULE_ROOT: ctx.wasmRoot || '', and the
\* fee token variables only for addresses that are set
envVarsL3 ==
    << <<"DEPLOYER_PRIVKEY", loc.l3OwnerKey>>,
       <<"OWNER_ADDRESS", loc.l3OwnerAddress>>,
       <<"WASM_MODULE_ROOT",
         IF Falsy(ctx.wasmRoot) THEN <<>> ELSE ctx.wasmRoot>>,
       <<"SEQUENCER_ADDRESS", loc.l3SequencerAddress>> >>
    \o (IF Falsy(loc.nativeTokenAddress) THEN <<>>
        ELSE << <<"FEE_TOKEN_ADDRESS", loc.nativeTokenAddress>> >>)
    \o (IF Falsy(loc.feeTokenPricerAddress) THEN <<>>
        ELSE << <<"FEE_TOKEN_PRICER_ADDRESS",
                  loc.feeTokenPricerAddress>> >>)

\* create-rollup-testnode for L3, 5 minute timeout
deployL3Rollup_deploy ==
    /\ pc = "deployL3Rollup_deploy"
    /\ \E r \in CapturedNone :
          /\ IssueWith("deployL3Rollup_deploy", L3ConfigAddresses,
                       envVarsL3, r, FALSE)
          /\ IF r.code # 0 THEN Throw("Failed to deploy L3 rollup")
             ELSE Goto("deployL3Rollup_jq")
    /\ UNCHANGED <<ctx, loc>>
    /\ StepFrame

deployL3Rollup_jq ==
    FatalCall("deployL3Rollup_jq", CapturedNone, {},
              "Failed to process L3 chain info", "startL3Node")

startL3Node ==
    FatalCall("startL3Node", Streamed, {}, "Failed to start L3 node",
              "deployL3TokenBridge")

\* returns at once unless --l3-token-bridge; the deployer key command's
\* exit code is not looked at
deployL3TokenBridge ==
    /\ pc = "deployL3TokenBridge"
    /\ IF ~ctx.flags.l3TokenBridge
       THEN Goto("fundL3Accounts") /\ NoIssue /\ UNCHANGED loc
       ELSE \E r \in CapturedValue :
               /\ Issue("deployL3TokenBridge_deployerKey", {}, r, FALSE)
               /\ loc' = [loc EXCEPT !.deployerKey = cleanOutput(r.stdout)]
               /\ Goto("deployL3TokenBridge_rollup")
    /\ UNCHANGED ctx
    /\ StepFrame

\* the rollup address is read with jq and used as it is printed
deployL3TokenBridge_rollup ==
    /\ pc = "deployL3TokenBridge_rollup"
    /\ \E r \in CapturedRollup :
          /\ Issue("deployL3TokenBridge_rollup", {}, r, FALSE)
          /\ IF r.code # 0
             THEN Throw("Failed to get L3 rollup address") /\ UNCHANGED loc
             ELSE /\ loc' = [loc EXCEPT
                               !.rollupAddress = cleanOutput(r.stdout)]
                  /\ Goto("getL2WethAddress")
    /\ UNCHANGED ctx
    /\ StepFrame

\* '' without --tokenbridge, when the command fails, when the file does not
\* parse or has no childWeth
getL2WethAddress ==
    /\ pc = "getL2WethAddress"
    /\ IF ~ctx.flags.tokenbridge
       THEN NoIssue /\ loc' = [loc EXCEPT !.l2Weth = <<>>]
       ELSE \E r \in CapturedNetwork :
               /\ Issue("getL2WethAddress", {}, r, FALSE)
               /\ loc' = [loc EXCEPT !.l2Weth =
                            IF r.code # 0 \/ ~jsonParses(r.stdout)
                            THEN <<>> ELSE jsonMember(r.stdout, "W")]
    /\ Goto("deployL3TokenBridge_deploy")
    /\ UNCHANGED ctx
    /\ StepFrame

\* deploy:local:token-bridge for L3 with ROLLUP_ADDRESS, 5 minute timeout
deployL3TokenBridge_deploy ==
    FatalCall("deployL3TokenBridge_deploy", CapturedNone,
              {loc.rollupAddress}
              \cup (IF Falsy(loc.l2Weth) THEN {} ELSE {loc.l2Weth}),
              "Failed to deploy L3 token bridge", "deployL3TokenBridge_copy")

deployL3TokenBridge_copy ==
    WarnCall("deployL3TokenBridge_copy", CapturedNone, {},
             "transferL3ChainOwnership")

\* reads l2l3_network.json; every failure here is a warning
transferL3ChainOwnership ==
    /\ pc = "transferL3ChainOwnership"
    /\ \E r \in CapturedNetwork :
          LET tokenBridgeCreator ==
                  IF r.code # 0 \/ ~jsonParses(r.stdout)
                  THEN <<>> ELSE jsonMember(r.stdout, "C")
          IN  /\ Issue("transferL3ChainOwnership", {}, r,
                       tokenBridgeCreator = <<>>)
              /\ loc' = [loc EXCEPT !.tokenBridgeCreator = tokenBridgeCreator]
              /\ IF tokenBridgeCreator = <<>>
                 THEN Goto("fundL3Accounts")
                 ELSE Goto("transferL3ChainOwnership_transfer")
    /\ UNCHANGED ctx
    /\ StepFrame

transferL3ChainOwnership_transfer ==
    WarnCall("transferL3ChainOwnership_transfer", CapturedNone,
             {loc.tokenBridgeCreator}, "fundL3Accounts")

\* with a native token: bridge it, then send L3 ETH from the deployer;
\* without: bridge ETH
fundL3Accounts ==
    /\ pc = "fundL3Accounts"
    /\ \E r \in CapturedNone :
          IF ~Falsy(loc.nativeTokenAddress)
          THEN /\ Issue("fundL3Accounts_bridgeNative", {}, r, FALSE)
               /\ IF r.code # 0
                  THEN Throw("Failed to bridge native token to L3")
                  ELSE Goto("fundL3Accounts_sendDeployer")
          ELSE /\ Issue("fundL3Accounts_bridge", {}, r, FALSE)
               /\ IF r.code # 0 THEN Throw("Failed to bridge to L3")
                  ELSE Goto("fundL3Accounts_sendOwner")
    /\ UNCHANGED <<ctx, loc>>
    /\ StepFrame

fundL3Accounts_sendDeployer ==
    FatalCall("fundL3Accounts_sendDeployer", CapturedNone, {},
              "Failed to send L3 from fee token deployer",
              "fundL3Accounts_sendOwner")

fundL3Accounts_sendOwner ==
    FatalCall("fundL3Accounts_sendOwner", CapturedNone, {},
              "Failed to fund l3owner", "deployCacheManagerL3")

\* deployCacheManagerL3 with a failed deployment thrown as an error
deployCacheManagerL3Fatal ==
    FatalCall("deployCacheManagerL3", CapturedNone, {},
              "L3 CacheManager deployment failed", "deployStylusDeployerL3")

deployCacheManagerL3 ==
    WarnCall("deployCacheManagerL3", CapturedNone, {},
             "deployStylusDeployerL3")

\* the last step of deployL3 and of configureL2Nodes
deployStylusDeployerL3 ==
    /\ pc = "deployStylusDeployerL3"
    /\ \E r \in CapturedNone :
          /\ Issue("deployStylusDeployerL3", {}, r, r.code # 0)
          /\ Goto("runInit")
    /\ loc' = NoLoc
    /\ UNCHANGED ctx
    /\ StepFrame

\* ------------------------------------------------------------------------
\* Phase "Setup traffic generators": setupTrafficGenerators
\* ------------------------------------------------------------------------

\* one generator: fund its account, then spawn the detached background
\* loop. spawnBackgroundTraffic registers no listener on the child: when the
\* process cannot be started its 'error' event has no handler, which Node
\* raises as an uncaught exception that ends the process
TrafficStep(step, enabled, name, message, next) ==
    /\ pc = step
    /\ IF ~enabled
       THEN Goto(next) /\ NoIssue /\ UNCHANGED background
       ELSE \E r \in CapturedNone :
               /\ Issue(step, {}, r, FALSE)
               /\ IF r.code # 0
                  THEN Throw(message) /\ UNCHANGED background
                  ELSE \E spawned \in BOOLEAN :
                          IF spawned
                          THEN /\ background' = background \cup {name}
                               /\ Goto(next)
                          ELSE /\ pc' = "crashed"
                               /\ UNCHANGED <<err, errorLog, background>>
    /\ UNCHANGED <<pureVars, input, ctx, loc, phaseIdx, started>>

\* a running background generator fails or exits: the child is detached,
\* its stdio is ignored, it is unref'd and nothing listens to it
trafficExit ==
    /\ \E name \in background : background' = background \ {name}
    /\ UNCHANGED <<pureVars, input, pc, ctx, loc, phaseIdx, started, calls,
                   lastCall, err, errorLog>>

setupTrafficGenerators ==
    /\ pc = "setupTrafficGenerators"
    /\ IF ~(ctx.flags.l1Traffic \/ ctx.flags.l2Traffic \/ ctx.flags.l3Traffic)
       THEN Goto("runInit")
       ELSE Goto("setupL1TrafficGenerator")
    /\ NoIssue
    /\ UNCHANGED <<ctx, loc>>
    /\ StepFrame

setupL1TrafficGenerator ==
    TrafficStep("setupL1TrafficGenerator", ctx.flags.l1Traffic,
                "L1 traffic", "Failed to fund L1 traffic generator",
                "setupL2TrafficGenerator")

setupL2TrafficGenerator ==
    TrafficStep("setupL2TrafficGenerator", ctx.flags.l2Traffic,
                "L2 traffic", "Failed to fund L2 traffic generator",
                "setupL3TrafficGenerator")

\* setupL3TrafficGenerator run for --l3-traffic whether or not L3 is deployed
setupL3TrafficGeneratorAnyNode ==
    TrafficStep("setupL3TrafficGenerator", ctx.flags.l3Traffic,
                "L3 traffic", "Failed to fund L3 traffic generator",
                "runInit")

setupL3TrafficGenerator ==
    TrafficStep("setupL3TrafficGenerator",
                ctx.flags.l3Traffic /\ ctx.flags.l3node,
                "L3 traffic", "Failed to fund L3 traffic generator",
                "runInit")

\* ------------------------------------------------------------------------
\* Phase "Launch services"
\* ------------------------------------------------------------------------

\* docker compose up -d [--wait] <services>
launchServices ==
    /\ pc = "launchServices"
    /\ \E r \in Streamed :
          /\ IssueWith("launchServices", {},
                       <<"-d">>
                       \o (IF ~ctx.flags.nowait THEN <<"--wait">> ELSE <<>>)
                       \o calculateServices(ctx.flags),
                       r, FALSE)
          /\ IF r.code # 0 THEN Throw("Failed to launch services")
             ELSE Goto("runInit")
    /\ UNCHANGED <<ctx, loc>>
    /\ StepFrame

\* ------------------------------------------------------------------------
\* The init pipeline as a state machine
\* ------------------------------------------------------------------------

\* the init command's options at their CLI defaults; envCI is process.env.CI
cliDefaults ==
    [envCI |-> FALSE] @@
    [defaultFlags EXCEPT !.simple = TRUE, !.l1Traffic = TRUE,
                         !.l2Traffic = TRUE, !.l3Traffic = TRUE]

\* numeric values drawn for --l3-fee-token-decimals
DecimalsValues ==
    ((MIN_FEE_TOKEN_DECIMALS - Slack)..MIN_FEE_TOKEN_DECIMALS)
    \cup {DEFAULT_FEE_TOKEN_DECIMALS}
    \cup (MAX_FEE_TOKEN_DECIMALS..(MAX_FEE_TOKEN_DECIMALS + Slack))
    \cup {NaN}

\* the command lines the pipeline is run with: each family varies the
\* options of one feature area around the defaults
InputsL3 ==
    {[cliDefaults EXCEPT !.l3node = a, !.l3FeeToken = b,
                         !.l3FeeTokenPricer = c, !.l3TokenBridge = d,
                         !.tokenbridge = e, !.l3Traffic = f] :
        a \in BOOLEAN, b \in BOOLEAN, c \in BOOLEAN, d \in BOOLEAN,
        e \in BOOLEAN, f \in BOOLEAN}

InputsL2 ==
    {[cliDefaults EXCEPT !.simple = a, !.l2Anytrust = b, !.l2Timeboost = c,
                         !.pos = d, !.tokenbridge = e] :
        a \in BOOLEAN, b \in BOOLEAN, c \in BOOLEAN, d \in BOOLEAN,
        e \in BOOLEAN}

InputsTraffic ==
    {[cliDefaults EXCEPT !.l1Traffic = a, !.l2Traffic = b, !.l3Traffic = c,
                         !.l3node = d] :
        a \in BOOLEAN, b \in BOOLEAN, c \in BOOLEAN, d \in BOOLEAN}

InputsBuild ==
    {[cliDefaults EXCEPT !.devNitro = a, !.buildDevNitro = b,
                         !.buildNodeImages = c] :
        a \in BOOLEAN, b \in BOOLEAN, c \in BOOLEAN}
    \cup {[cliDefaults EXCEPT !.devBlockscout = a, !.buildDevBlockscout = b,
                              !.blockscout = c] :
             a \in BOOLEAN, b \in BOOLEAN, c \in BOOLEAN}
    \cup {[cliDefaults EXCEPT !.buildUtils = a, !.envCI = b] :
             a \in BOOLEAN, b \in BOOLEAN}

InputsNumeric ==
    {[cliDefaults EXCEPT !.l3node = TRUE, !.l3FeeToken = a,
                         !.l3FeeTokenDecimals = d] :
        a \in BOOLEAN, d \in DecimalsValues}
    \cup {[cliDefaults EXCEPT !.batchposters = b, !.redundantsequencers = s,
                              !.validate = v] :
             b \in (0 - Slack)..(MAX_BATCH_POSTERS + Slack),
             s \in (0 - Slack)..(MAX_REDUNDANT_SEQUENCERS + Slack),
             v \in BOOLEAN}

InputsTimeboost ==
    {[cliDefaults EXCEPT !.l2Timeboost = TRUE, !.redundantsequencers = s] :
        s \in 0..MAX_REDUNDANT_SEQUENCERS}

Inputs ==
    InputsL3 \cup InputsL2 \cup InputsTraffic \cup InputsBuild
    \cup InputsNumeric \cup InputsTimeboost

\* the pure-function variables while the pipeline runs
PureIdle ==
    /\ vflags = defaultFlags
    /\ vresult = <<>>
    /\ services = <<>>
    /\ text = <<>>
    /\ extracted = <<>>
    /\ options = NoOptions

Init ==
    /\ PureIdle
    /\ input \in Inputs
    /\ pc = "initCommand"
    /\ ctx = newContext(defaultFlags)
    /\ loc = NoLoc
    /\ phaseIdx = 0
    /\ started = <<>>
    /\ calls = <<>>
    /\ lastCall = NoCall
    /\ err = NoError
    /\ errorLog = NoLog
    /\ background = {}

Next ==
    \/ initCommand \/ runInit
    \/ cleanupExisting_down \/ cleanupExisting_lsContainers
    \/ cleanupExisting_rmContainers \/ cleanupExisting_pruneVolumes
    \/ cleanupExisting_lsVolumes \/ cleanupExisting_rmVolumes
    \/ buildDevNitro \/ buildDevBlockscout \/ buildUtilityImages
    \/ setupNitroNodeImage \/ setupNitroNodeImage_pull
    \/ setupNitroNodeImage_tag \/ setupBlockscoutImage
    \/ setupBlockscoutImage_pull \/ setupBlockscoutImage_tag
    \/ buildNodeImages
    \/ generateL1Keys_writeAccounts \/ generateL1Keys_passphrase
    \/ generateL1Keys_keystore \/ generateL1Keys_config \/ writeGethGenesis
    \/ setupPrysm \/ createBeaconChainGenesis \/ startBeaconChain
    \/ startValidator \/ initializeGeth \/ startGeth_up \/ startGeth_sync
    \/ fundAccounts \/ getL2OwnerAddress
    \/ getSequencerAddress \/ getL2OwnerKey \/ getWasmRoot
    \/ writeL2ChainConfig \/ deployRollup \/ processDeployedChainInfo
    \/ setupAnyTrust \/ createDasDirectories_chown \/ generateDasKeys_A
    \/ generateDasKeys_B \/ writeDasConfigs_committee
    \/ writeDasConfigs_mirror \/ readBlsKeys_A \/ readBlsKeys_B
    \/ writeKeysetConfig_write \/ writeKeysetConfig_dump \/ setValidKeyset
    \/ startAnyTrustServices
    \/ writeNodeConfigs \/ initializeRedis \/ initializeRedis_init
    \/ startSequencersAndFund_up \/ startSequencersAndFund_bridge
    \/ startSequencersAndFund_send
    \/ setupTimeboost \/ deployBiddingToken \/ deployAuctionContract
    \/ getAuctioneerAddress \/ writeTimeboostConfigs
    \/ fixAuctioneerPermissions \/ fundTestAccounts_aliceEth
    \/ fundTestAccounts_bobEth \/ fundTestAccounts_aliceToken
    \/ fundTestAccounts_bobToken \/ updateSequencerConfig
    \/ restartSequencers
    \/ deployTokenBridge \/ deployTokenBridge_deploy
    \/ deployTokenBridge_copy \/ deployPostDeployContracts
    \/ deployPostDeployContracts_stylus \/ deployPostDeployContracts_gasL1
    \/ deployPostDeployContracts_gasL2
    \/ deployL3 \/ fundL3Users \/ fundL2Deployers_l1 \/ fundL2Deployers_l2
    \/ fundTokenDeployer_l1 \/ fundTokenDeployer_l2 \/ getL3OwnerAddress
    \/ writeL3ChainConfig \/ deployCustomFeeToken
    \/ deployCustomFeeToken_toOwner \/ deployCustomFeeToken_toDeployer
    \/ deployCustomFeeToken_pricer \/ getL3OwnerKey
    \/ getL3SequencerAddress \/ deployL3Rollup_deploy \/ deployL3Rollup_jq
    \/ startL3Node \/ deployL3TokenBridge \/ deployL3TokenBridge_rollup
    \/ getL2WethAddress \/ deployL3TokenBridge_deploy
    \/ deployL3TokenBridge_copy \/ transferL3ChainOwnership
    \/ transferL3ChainOwnership_transfer \/ fundL3Accounts
    \/ fundL3Accounts_sendDeployer \/ fundL3Accounts_sendOwner
    \/ deployCacheManagerL3 \/ deployStylusDeployerL3
    \/ setupTrafficGenerators \/ setupL1TrafficGenerator
    \/ setupL2TrafficGenerator \/ setupL3TrafficGenerator
    \/ trafficExit
    \/ launchServices

Spec == Init /\ [][Next]_vars

\* ------------------------------------------------------------------------
\* validateFlags and the address extraction as functions of their input
\* ------------------------------------------------------------------------

\* the pipeline variables while a pure function is exercised
RunIdle ==
    /\ input = cliDefaults
    /\ pc = "idle"
    /\ ctx = newContext(defaultFlags)
    /\ loc = NoLoc
    /\ phaseIdx = 0
    /\ started = <<>>
    /\ calls = <<>>
    /\ lastCall = NoCall
    /\ err = NoError
    /\ errorLog = NoLog
    /\ background = {}

\* the FlagSets validateFlags is called with
ValidateInputs ==
    {[defaultFlags EXCEPT !.nowait = a, !.detach = b, !.l3node = c,
                          !.l3FeeToken = d, !.l3FeeTokenPricer = e,
                          !.l3TokenBridge = f, !.simple = g,
                          !.l3Traffic = h, !.l3FeeTokenDecimals = n,
                          !.batchposters = p, !.redundantsequencers = q] :
        a \in BOOLEAN, b \in BOOLEAN, c \in BOOLEAN, d \in BOOLEAN,
        e \in BOOLEAN, f \in BOOLEAN, g \in BOOLEAN, h \in BOOLEAN,
        n \in DecimalsValues,
        p \in (0 - Slack)..(MAX_BATCH_POSTERS + Slack),
        q \in (0 - Slack)..(MAX_REDUNDANT_SEQUENCERS + Slack)}

InitValidate ==
    /\ vflags \in ValidateInputs
    /\ vresult = <<>>
    /\ services = <<>>
    /\ text = <<>>
    /\ extracted = <<>>
    /\ options = NoOptions
    /\ RunIdle

\* one call validateFlags(vflags)
CallValidateFlags ==
    /\ vresult = <<>>
    /\ vresult' = <<validateFlags(vflags)>>
    /\ UNCHANGED <<vflags, services, text, extracted, options, runVars>>

SpecValidate == InitValidate /\ [][CallValidateFlags]_vars

\* validateFlags called on its own and as the gate of the init command
InitValidated == Init \/ InitValidate

NextValidated == Next \/ (pc = "idle" /\ CallValidateFlags)

SpecValidated == InitValidated /\ [][NextValidated]_vars

\* characters of the stdout texts
Alphabet == {"0", "x", "A", SP, NL, CR}

\* every text of at most MaxLen characters
Texts == UNION {[1..n -> Alphabet] : n \in 0..MaxLen}

InitExtract ==
    /\ text \in Texts
    /\ extracted = <<>>
    /\ options = NoOptions
    /\ vflags = defaultFlags
    /\ vresult = <<>>
    /\ services = <<>>
    /\ RunIdle

\* one extraction of the last word of the last line of text
CallExtractAddress ==
    /\ extracted = <<>>
    /\ extracted' = <<extractAddress(text)>>
    /\ UNCHANGED <<vflags, vresult, services, text, options, runVars>>

SpecExtract == InitExtract /\ [][CallExtractAddress]_vars

\* the ServiceCalculationFlags calculateServices is called with
ServiceInputs ==
    {[defaultFlags EXCEPT !.simple = a, !.validate = b, !.l3node = c,
                          !.blockscout = d, !.l2Timeboost = e,
                          !.batchposters = p, !.redundantsequencers = q] :
        a \in BOOLEAN, b \in BOOLEAN, c \in BOOLEAN, d \in BOOLEAN,
        e \in BOOLEAN,
        p \in (0 - Slack)..(MAX_BATCH_POSTERS + Slack),
        q \in (0 - Slack)..(MAX_REDUNDANT_SEQUENCERS + Slack)}

InitServices ==
    /\ vflags \in ServiceInputs
    /\ vresult = <<>>
    /\ services = <<>>
    /\ text = <<>>
    /\ extracted = <<>>
    /\ options = NoOptions
    /\ RunIdle

\* one call calculateServices(vflags)
CallCalculateServices ==
    /\ services = <<>>
    /\ services' = <<calculateServices(vflags)>>
    /\ UNCHANGED <<vflags, vresult, text, extracted, options, runVars>>

\* one call calculateInitialSequencerNodes(vflags), kept after the services
CallCalculateInitialSequencerNodes ==
    /\ Len(services) = 1
    /\ services' = Append(services, calculateInitialSequencerNodes(vflags))
    /\ UNCHANGED <<vflags, vresult, text, extracted, options, runVars>>

NextServices == CallCalculateServices \/ CallCalculateInitialSequencerNodes

SpecServices == InitServices /\ [][NextServices]_vars

\* ------------------------------------------------------------------------
\* The start command
\* ------------------------------------------------------------------------

\* the StartCommandFlags the CLI's start handler builds from its options;
\* batchposters and redundantsequencers are restricted to their choices
StartInputs ==
    {[defaultFlags EXCEPT !.detach = dt, !.nowait = nw,
                          !.simple = a, !.validate = b, !.l3node = c,
                          !.blockscout = d, !.l2Timeboost = e,
                          !.batchposters = p, !.redundantsequencers = q] :
        dt \in BOOLEAN, nw \in BOOLEAN,
        a \in BOOLEAN, b \in BOOLEAN, c \in BOOLEAN, d \in BOOLEAN,
        e \in BOOLEAN,
        p \in 0..MAX_BATCH_POSTERS, q \in 0..MAX_REDUNDANT_SEQUENCERS}

InitStart ==
    /\ vflags \in StartInputs
    /\ vresult = <<>>
    /\ services = <<>>
    /\ text = <<>>
    /\ extracted = <<>>
    /\ options = NoOptions
    /\ input = cliDefaults
    /\ pc = "startCommand"
    /\ ctx = newContext(defaultFlags)
    /\ loc = NoLoc
    /\ phaseIdx = 0
    /\ started = <<>>
    /\ calls = <<>>
    /\ lastCall = NoCall
    /\ err = NoError
    /\ errorLog = NoLog
    /\ background = {}

\* startCommand with wait: !flags.nowait, as the 'Launch services' phase has
\* it, while detach stays flags.detach
startCommandWaitAlone ==
    /\ pc = "startCommand"
    /\ LET shouldDetach == vflags.detach
           shouldWait == ~vflags.nowait
       IN  \E r \in Streamed :
              /\ services' = <<calculateServices(vflags)>>
              /\ IssueWith("composeUp", {},
                           (IF shouldDetach THEN <<"-d">> ELSE <<>>)
                           \o (IF shouldWait THEN <<"--wait">> ELSE <<>>)
                           \o calculateServices(vflags),
                           r, FALSE)
              /\ IF r.code # 0
                 THEN /\ errorLog' = [message |-> "Failed to start services",
                                      phase |-> "none"]
                      /\ pc' = "exited"
                 ELSE /\ pc' = "done"
                      /\ UNCHANGED errorLog
    /\ UNCHANGED <<vflags, vresult, text, extracted, options, input, ctx,
                   loc, phaseIdx, started, err, background>>

\* startCommand: the services are calculated and handed to composeUp with
\* detach: flags.detach and wait: flags.detach && !flags.nowait; a non-zero
\* exit code is logged and ends the process with that code
startCommand ==
    /\ pc = "startCommand"
    /\ LET shouldDetach == vflags.detach
           shouldWait == vflags.detach /\ ~vflags.nowait
       IN  \E r \in Streamed :
              /\ services' = <<calculateServices(vflags)>>
              /\ IssueWith("composeUp", {},
                           (IF shouldDetach THEN <<"-d">> ELSE <<>>)
                           \o (IF shouldWait THEN <<"--wait">> ELSE <<>>)
                           \o calculateServices(vflags),
                           r, FALSE)
              /\ IF r.code # 0
                 THEN /\ errorLog' = [message |-> "Failed to start services",
                                      phase |-> "none"]
                      /\ pc' = "exited"
                 ELSE /\ pc' = "done"
                      /\ UNCHANGED errorLog
    /\ UNCHANGED <<vflags, vresult, text, extracted, options, input, ctx,
                   loc, phaseIdx, started, err, background>>

SpecStart == InitStart /\ [][startCommand]_vars

\* the two commands that launch services: init, whose last phase launches
\* them, and start
InitLaunch == Init \/ InitStart

NextLaunch == Next \/ startCommand

SpecLaunch == InitLaunch /\ [][NextLaunch]_vars

\* ------------------------------------------------------------------------
\* The clean command
\* ------------------------------------------------------------------------

TESTNODE_VOLUME_PREFIX == "nitro-testnode"

\* the volumes docker may list: two of the testnode's, one of another project
VolumeNames ==
    {<<TESTNODE_VOLUME_PREFIX, "_a">>, <<TESTNODE_VOLUME_PREFIX, "_b">>,
     <<"other", "_a">>}

\* the listings of docker volume ls, one name per line
VolumeListings == UNION {[1..n -> VolumeNames] : n \in 0..MaxVolumes}

\* volume.name.startsWith(prefix)
startsWith(name, prefix) == name # <<>> /\ name[1] = prefix

\* getVolumes(prefix): the listed volumes whose name starts with the prefix
getVolumes(listing, prefix) ==
    SelectSeq(listing, LAMBDA name : startsWith(name, prefix))

\* run: the promise of execAsync is rejected unless the child exited with 0
run(o, stdout) ==
    [code |-> execErrorCode(o), killed |-> o.killed, stdout |-> stdout,
     threw |-> o.killed \/ o.code # 0]

Listed == {run(o, l) : o \in ProcOutcomes, l \in VolumeListings}
Pruned == {run(o, <<>>) : o \in ProcOutcomes}

\* the options the CLI's clean handler builds from --force and
\* --prune-images
CleanInputs == [force : BOOLEAN, pruneImages : BOOLEAN]

InitClean ==
    /\ options \in CleanInputs
    /\ vflags = defaultFlags
    /\ vresult = <<>>
    /\ services = <<>>
    /\ text = <<>>
    /\ extracted = <<>>
    /\ input = cliDefaults
    /\ pc = "cleanCommand"
    /\ ctx = newContext(defaultFlags)
    /\ loc = NoLoc
    /\ phaseIdx = 0
    /\ started = <<>>
    /\ calls = <<>>
    /\ lastCall = NoCall
    /\ err = NoError
    /\ errorLog = NoLog
    /\ background = {}

\* the frame of every step of cleanCommand
CleanFrame ==
    UNCHANGED <<pureVars, input, ctx, phaseIdx, started, errorLog,
                background>>

\* the first statement of cleanCommand is stopServices: docker compose down
\* -v --remove-orphans, whose failure is a warning
cleanCommand ==
    /\ pc = "cleanCommand"
    /\ \E r \in CapturedNone :
          IssueWith("stopServices", {}, <<"-v", "--remove-orphans">>, r,
                    r.code # 0)
    /\ pc' = "cleanCommand_getVolumes"
    /\ UNCHANGED <<loc, err>>
    /\ CleanFrame

\* getVolumes('nitro-testnode'); without volumes cleanVolumes is passed over
cleanCommand_getVolumes ==
    /\ pc = "cleanCommand_getVolumes"
    /\ \E r \in Listed :
          /\ Issue("getVolumes", {}, r, FALSE)
          /\ IF r.threw
             THEN /\ err' = [message |-> "Command failed: docker volume ls"]
                  /\ pc' = "failed"
                  /\ UNCHANGED loc
             ELSE LET volumes == getVolumes(r.stdout, TESTNODE_VOLUME_PREFIX)
                  IN  /\ loc' = [loc EXCEPT !.volumes = volumes]
                      /\ pc' = IF Len(volumes) = 0
                               THEN "cleanCommand_cleanImages"
                               ELSE "removeVolumes"
                      /\ UNCHANGED err
    /\ CleanFrame

\* removeVolumes leaving its loop at the first removal that fails
removeVolumesStopAtFailure ==
    /\ pc = "removeVolumes"
    /\ LET volume == loc.volumes[loc.i + 1]
       IN  \E r \in CapturedNone :
              /\ IssueWith("removeVolumes", {}, volume, r, FALSE)
              /\ loc' = [loc EXCEPT
                            !.i = loc.i + 1,
                            !.removed = IF r.code = 0
                                        THEN Append(loc.removed, volume)
                                        ELSE loc.removed,
                            !.failed = IF r.code = 0 THEN loc.failed
                                       ELSE Append(loc.failed, volume)]
              /\ pc' = IF r.code = 0 /\ loc.i + 1 < Len(loc.volumes)
                       THEN "removeVolumes"
                       ELSE "cleanCommand_cleanImages"
    /\ UNCHANGED err
    /\ CleanFrame

\* one iteration of the loop of removeVolumes: docker volume rm -f <name>;
\* loc.i volumes have been tried
removeVolumes ==
    /\ pc = "removeVolumes"
    /\ LET volume == loc.volumes[loc.i + 1]
       IN  \E r \in CapturedNone :
              /\ IssueWith("removeVolumes", {}, volume, r, FALSE)
              /\ loc' = [loc EXCEPT
                            !.i = loc.i + 1,
                            !.removed = IF r.code = 0
                                        THEN Append(loc.removed, volume)
                                        ELSE loc.removed,
                            !.failed = IF r.code = 0 THEN loc.failed
                                       ELSE Append(loc.failed, volume)]
              /\ pc' = IF loc.i + 1 < Len(loc.volumes)
                       THEN "removeVolumes"
                       ELSE "cleanCommand_cleanImages"
    /\ UNCHANGED err
    /\ CleanFrame

\* cleanImages, only with --prune-images: docker image prune -f -a
cleanCommand_cleanImages ==
    /\ pc = "cleanCommand_cleanImages"
    /\ IF ~options.pruneImages
       THEN pc' = "done" /\ NoIssue /\ UNCHANGED err
       ELSE \E r \in Pruned :
               /\ IssueWith("pruneImages", {}, <<"-f", "-a">>, r, FALSE)
               /\ IF r.threw
                  THEN /\ err' = [message |->
                                     "Command failed: docker image prune"]
                       /\ pc' = "failed"
                  ELSE pc' = "done" /\ UNCHANGED err
    /\ UNCHANGED loc
    /\ CleanFrame

NextClean ==
    \/ cleanCommand \/ cleanCommand_getVolumes \/ removeVolumes
    \/ cleanCommand_cleanImages

SpecClean == InitClean /\ [][NextClean]_vars

\* ------------------------------------------------------------------------
\* The sub-workflow steps that read InitContext, called on any context
\* ------------------------------------------------------------------------

\* a value a text-valued InitContext field may hold: absent, or a value the
\* pipeline would have stored
FieldValues == {Undef, GoodAddr}

\* InitContexts with any of the four optional fields absent; the flags ask
\* for the token bridge, so that deployTokenBridge reads the owner key
StepContexts ==
    {[newContext([defaultFlags EXCEPT !.tokenbridge = TRUE, !.l3node = TRUE])
         EXCEPT !.l2OwnerAddress = a, !.l2OwnerKey = k,
                !.sequencerAddress = q, !.wasmRoot = w] :
        a \in FieldValues, k \in FieldValues, q \in FieldValues,
        w \in FieldValues}

\* the steps that need a field of the context, with the index of their phase
StepEntries ==
    {[pc |-> "writeL2ChainConfig", phase |-> 4],
     [pc |-> "deployRollup", phase |-> 4],
     [pc |-> "deployTokenBridge", phase |-> 5],
     [pc |-> "deployPostDeployContracts", phase |-> 5],
     [pc |-> "deployL3Rollup_deploy", phase |-> 5]}

InitSteps ==
    /\ PureIdle
    /\ input = cliDefaults
    /\ ctx \in StepContexts
    /\ \E e \in StepEntries : pc = e.pc /\ phaseIdx = e.phase
    /\ loc = [NoLoc EXCEPT !.l3OwnerAddress = GoodAddr,
                           !.l3OwnerKey = GoodAddr,
                           !.l3SequencerAddress = GoodAddr]
    /\ started = <<>>
    /\ calls = <<>>
    /\ lastCall = NoCall
    /\ err = NoError
    /\ errorLog = NoLog
    /\ background = {}

NextSteps ==
    \/ writeL2ChainConfig \/ deployRollup
    \/ deployTokenBridge \/ deployPostDeployContracts
    \/ deployL3Rollup_deploy

SpecSteps == InitSteps /\ [][NextSteps]_vars

\* ------------------------------------------------------------------------
\* Properties of the init pipeline
\* ------------------------------------------------------------------------

\* a phase body has thrown
C1_Thrown == err # NoError /\ pc # "rejected"

C1_SyncFailed == lastCall.step = "startGeth_sync" /\ lastCall.code # 0

C1_AfterThrow ==
    C1_Thrown =>
        /\ UNCHANGED <<calls, lastCall, started, phaseIdx>>
        /\ background' \subseteq background

\* C1: once a phase body throws, runInit rejects, and from then on no phase
\* is started or skipped and no Command-Executor call is issued; when
\* wait-for-sync returns a non-zero exit code the run fails with 'Geth sync
\* failed' in 'Setup L1 chain' and 'Deploy L2 chain' and the later phases
\* never start.
C1_AbortIsFinal ==
    /\ [](C1_Thrown => pc = "failed")
    /\ [](C1_SyncFailed =>
            /\ pc = "failed"
            /\ err.message = "Geth sync failed"
            /\ started = <<"Cleanup existing data", "Build docker images",
                           "Setup L1 chain">>)
    /\ [][C1_AfterThrow]_vars

C1_Witness == pc = "failed" /\ C1_SyncFailed

\* C2: initCommand throws 'Invalid flag configuration' without calling
\* runInit, so without any Command-Executor call, exactly when validateFlags
\* reports at least one error for the converted flags; otherwise (warnings
\* or not) runInit is called.
C2_ValidationGate ==
    pc # "initCommand" =>
        LET validation == validateFlags(toTestnodeFlags(input))
        IN  IF Len(validation.errors) >= 1
            THEN /\ pc = "rejected"
                 /\ err.message = "Invalid flag configuration"
                 /\ calls = <<>> /\ started = <<>> /\ phaseIdx = 0
                 /\ lastCall = NoCall /\ background = {}
            ELSE /\ pc # "rejected"
                 /\ ctx.flags = toTestnodeFlags(input)

C2_Witness ==
    /\ pc = "rejected"
    /\ Len(validateFlags(toTestnodeFlags(input)).errors) >= 1
    /\ calls = <<>>

C3_PhaseOrder ==
    <<"Cleanup existing data", "Build docker images", "Setup L1 chain",
      "Deploy L2 chain", "Configure L2 nodes", "Setup traffic generators",
      "Launch services">>

C3_Position(name) ==
    CHOOSE k \in 0..Len(C3_PhaseOrder) :
        IF \E j \in 1..Len(C3_PhaseOrder) : C3_PhaseOrder[j] = name
        THEN k > 0 /\ C3_PhaseOrder[k] = name
        ELSE k = 0

C3_Skipped(k) ==
    /\ C3_PhaseOrder[k] = "Setup traffic generators"
    /\ ~ctx.flags.l1Traffic /\ ~ctx.flags.l2Traffic /\ ~ctx.flags.l3Traffic

\* the started phases are phases of the list, in the list's order, each at
\* most once, and none is started before every earlier phase that is not
\* skipped
C3_Ordered ==
    /\ \A i \in 1..Len(started) : C3_Position(started[i]) > 0
    /\ \A i \in 1..Len(started) : \A j \in 1..Len(started) :
          i < j => C3_Position(started[i]) < C3_Position(started[j])
    /\ \A i \in 1..Len(started) :
          \A k \in 1..(C3_Position(started[i]) - 1) :
             \/ C3_Skipped(k)
             \/ \E j \in 1..(i - 1) : started[j] = C3_PhaseOrder[k]

\* a phase is started by the phase loop, when the body before it has
\* returned and nothing has been thrown
C3_StartStep ==
    started' # started =>
        /\ pc = "runInit"
        /\ err = NoError
        /\ Len(started') = Len(started) + 1
        /\ SubSeq(started', 1, Len(started)) = started

\* C3: phases start only in the fixed order Cleanup existing data, Build
\* docker images, Setup L1 chain, Deploy L2 chain, Configure L2 nodes, Setup
\* traffic generators, Launch services, each at most once, each only after
\* the previous non-skipped phase has returned without failing.
C3_PhasesInOrder == []C3_Ordered /\ [][C3_StartStep]_vars

C3_Witness ==
    /\ pc = "done"
    /\ started = C3_PhaseOrder

C5_TimeBounded == {"startGeth_sync", "deployRollup", "setValidKeyset"}

\* C5: a time-bounded command that is killed when its timeout expires is
\* never reported with exit code 0 and is a failed step that aborts the
\* run; for wait-for-sync the error is 'Geth sync failed'
C5_TimeoutIsFailure ==
    lastCall.killed /\ lastCall.step \in C5_TimeBounded =>
        /\ lastCall.code # 0
        /\ pc = "failed"
        /\ lastCall.step = "startGeth_sync" =>
              err.message = "Geth sync failed"

\* the calls whose exit code is an answer the pipeline branches on, and the
\* calls of the cleanup phase, whose failures go to the debug log
C6_Answers ==
    {"setupNitroNodeImage", "setupBlockscoutImage",
     "cleanupExisting_down", "cleanupExisting_lsContainers",
     "cleanupExisting_rmContainers", "cleanupExisting_pruneVolumes",
     "cleanupExisting_lsVolumes", "cleanupExisting_rmVolumes"}

\* C6: every other Command-Executor call that returns a non-zero exit code
\* either aborts the pipeline or is logged as a warning; none is silently
\* ignored
C6_NonZeroAbortsOrWarns ==
    lastCall.code # 0 /\ lastCall.step \notin C6_Answers =>
        pc = "failed" \/ lastCall.warned

\* C7: every value a command is given as an address (ROLLUP_ADDRESS of the
\* token-bridge deployments included) starts with 0x
C7_AddressesChecked == \A a \in lastCall.addrs : validAddress(a)

\* ------------------------------------------------------------------------
\* Properties of the address extraction
\* ------------------------------------------------------------------------

\* position of the last character of s that is no whitespace, 0 if none
C8_End(s) ==
    CHOOSE i \in 0..Len(s) :
        /\ i = 0 \/ ~IsWs(s[i])
        /\ \A j \in (i + 1)..Len(s) : IsWs(s[j])

\* the last whitespace-delimited token of the last non-blank line of s:
\* the longest run of non-whitespace characters that ends at C8_End(s)
C8_LastToken(s) ==
    LET e == C8_End(s)
        b == CHOOSE k \in 1..(e + 1) :
                 /\ \A j \in k..e : ~IsWs(s[j])
                 /\ k = 1 \/ IsWs(s[k - 1])
    IN  SubSeq(s, b, e)

\* C8: when the last token of the last line of stdout starts with 0x, the
\* extraction returns exactly that token and does not throw; for empty
\* stdout or a last token that does not start with 0x, it throws
C8_LastTokenExtracted ==
    extracted # <<>> =>
        IF startsWith0x(C8_LastToken(text))
        THEN extracted[1] = [value |-> C8_LastToken(text), threw |-> FALSE]
        ELSE extracted[1].threw

\* a two-line stdout whose last line ends in a second token that starts
\* with 0x
C8_Witness ==
    /\ text = <<"A", NL, "A", SP, "0", "x">>
    /\ extracted = <<[value |-> <<"0", "x">>, threw |-> FALSE]>>

\* ------------------------------------------------------------------------
\* Properties of validateFlags
\* ------------------------------------------------------------------------

\* the fatal rules a FlagSet violates, by the code of their error
C9_Violated(f) ==
    (IF f.nowait /\ ~f.detach THEN {"NOWAIT_REQUIRES_DETACH"} ELSE {})
    \cup (IF f.l3FeeToken /\ ~f.l3node
          THEN {"L3_FEE_TOKEN_REQUIRES_L3NODE"} ELSE {})
    \cup (IF f.l3FeeTokenPricer /\ ~f.l3FeeToken
          THEN {"L3_FEE_TOKEN_PRICER_REQUIRES_FEE_TOKEN"} ELSE {})
    \cup (IF f.l3FeeTokenDecimals # DEFAULT_FEE_TOKEN_DECIMALS
             /\ ~f.l3FeeToken
          THEN {"L3_FEE_TOKEN_DECIMALS_REQUIRES_FEE_TOKEN"} ELSE {})
    \cup (IF f.l3TokenBridge /\ ~f.l3node
          THEN {"L3_TOKEN_BRIDGE_REQUIRES_L3NODE"} ELSE {})
    \cup (IF ~(/\ f.l3FeeTokenDecimals # NaN
               /\ f.l3FeeTokenDecimals >= MIN_FEE_TOKEN_DECIMALS
               /\ f.l3FeeTokenDecimals <= MAX_FEE_TOKEN_DECIMALS)
          THEN {"L3_FEE_TOKEN_DECIMALS_OUT_OF_RANGE"} ELSE {})
    \cup (IF f.batchposters \notin 0..MAX_BATCH_POSTERS
          THEN {"BATCH_POSTERS_OUT_OF_RANGE"} ELSE {})
    \cup (IF f.redundantsequencers \notin 0..MAX_REDUNDANT_SEQUENCERS
          THEN {"REDUNDANT_SEQUENCERS_OUT_OF_RANGE"} ELSE {})

\* errors holds exactly one entry for every code of Codes and nothing else
C9_ExactlyOneOfEach(errors, Codes) ==
    /\ Len(errors) = Cardinality(Codes)
    /\ {errors[i] : i \in DOMAIN errors} = Codes

\* C9: the errors validateFlags returns hold exactly one entry per violated
\* rule and nothing else, and valid is true iff there is no error
C9_OneErrorPerViolatedRule ==
    vresult # <<>> =>
        /\ C9_ExactlyOneOfEach(vresult[1].errors, C9_Violated(vflags))
        /\ vresult[1].valid <=> vresult[1].errors = <<>>

\* the FlagSets of C10: the pricer without the fee token, with --l3node,
\* and no violation of the nowait and the two count rules
C10_Case(f) ==
    /\ f.l3FeeTokenPricer /\ ~f.l3FeeToken /\ f.l3node
    /\ ~(f.nowait /\ ~f.detach)
    /\ f.batchposters \in 0..MAX_BATCH_POSTERS
    /\ f.redundantsequencers \in 0..MAX_REDUNDANT_SEQUENCERS

\* the two dependency errors of such a FlagSet
C10_DependencyErrors(f) ==
    {"L3_FEE_TOKEN_PRICER_REQUIRES_FEE_TOKEN"}
    \cup (IF f.l3FeeTokenDecimals # DEFAULT_FEE_TOKEN_DECIMALS
          THEN {"L3_FEE_TOKEN_DECIMALS_REQUIRES_FEE_TOKEN"} ELSE {})

\* C10 (amended): for these FlagSets validateFlags returns the
\* pricer-requires-fee-token error, the decimals-requires-fee-token error
\* iff the decimals are not 18, the decimals-out-of-range error iff the
\* decimals compare below 0 or above 36, and no other error
C10_PricerWithoutFeeToken ==
    vresult # <<>> /\ C10_Case(vflags) =>
        C9_ExactlyOneOfEach(
            vresult[1].errors,
            C10_DependencyErrors(vflags)
            \cup (IF \/ jsLess(vflags.l3FeeTokenDecimals,
                               MIN_FEE_TOKEN_DECIMALS)
                     \/ jsGreater(vflags.l3FeeTokenDecimals,
                                  MAX_FEE_TOKEN_DECIMALS)
                  THEN {"L3_FEE_TOKEN_DECIMALS_OUT_OF_RANGE"} ELSE {}))

\* such a FlagSet with decimals above the range has been validated and
\* three errors were returned
C10_Witness ==
    /\ C10_Case(vflags)
    /\ jsGreater(vflags.l3FeeTokenDecimals, MAX_FEE_TOKEN_DECIMALS)
    /\ vresult # <<>>
    /\ Len(vresult[1].errors) = 3

\* C10 as stated: for every value of the decimals only the two dependency
\* errors are returned, never more than two errors
C10_AtMostTwoErrors ==
    vresult # <<>> /\ C10_Case(vflags) =>
        /\ C9_ExactlyOneOfEach(vresult[1].errors,
                               C10_DependencyErrors(vflags))
        /\ Len(vresult[1].errors) <= 2

\* the warnings a FlagSet calls for, by their code
C11_Expected(f) ==
    (IF f.simple /\ f.batchposters > 1
     THEN {"SIMPLE_MODE_IGNORES_BATCH_POSTERS"} ELSE {})
    \cup (IF f.simple /\ f.redundantsequencers > 0
          THEN {"SIMPLE_MODE_IGNORES_REDUNDANT_SEQUENCERS"} ELSE {})
    \cup (IF f.l3Traffic /\ ~f.l3node
          THEN {"L3_TRAFFIC_WITHOUT_L3NODE"} ELSE {})

\* C11: validateFlags emits each of the three warnings exactly when its
\* condition holds, and valid depends on the errors alone: a result with
\* warnings and no errors is valid
C11_WarningsAreNotFatal ==
    vresult # <<>> =>
        /\ C9_ExactlyOneOfEach(vresult[1].warnings, C11_Expected(vflags))
        /\ vresult[1].valid <=> vresult[1].errors = <<>>

\* simple mode with two batch posters has been validated: the warning is
\* there, there is no error and the result is valid
C11_Witness ==
    /\ vflags.simple /\ vflags.batchposters = 2
    /\ vresult # <<>>
    /\ vresult[1].warnings = <<"SIMPLE_MODE_IGNORES_BATCH_POSTERS">>
    /\ vresult[1].errors = <<>>
    /\ vresult[1].valid

\* ------------------------------------------------------------------------
\* Properties of calculateServices
\* ------------------------------------------------------------------------

\* the service list returned for vflags contains the service
InServices(name) == \E i \in DOMAIN services[1] : services[1][i] = name

\* C12: in simple mode the service list contains none of poster, poster_b,
\* poster_c
C12_SimpleHasNoPosters ==
    services # <<>> /\ vflags.simple =>
        /\ ~InServices("poster")
        /\ ~InServices("poster_b")
        /\ ~InServices("poster_c")

\* C13: in simple mode the service list contains none of sequencer_b,
\* sequencer_c, sequencer_d
C13_SimpleHasOneSequencer ==
    services # <<>> /\ vflags.simple =>
        /\ ~InServices("sequencer_b")
        /\ ~InServices("sequencer_c")
        /\ ~InServices("sequencer_d")

Occurrences(name) ==
    Cardinality({i \in DOMAIN services[1] : services[1][i] = name})

\* C15: for batchposters and redundantsequencers in 0..3, no service name
\* occurs twice in the list, its first element is sequencer, and redis is in
\* it iff simple is false
C15_ListShape ==
    (/\ services # <<>>
     /\ vflags.batchposters \in 0..MAX_BATCH_POSTERS
     /\ vflags.redundantsequencers \in 0..MAX_REDUNDANT_SEQUENCERS) =>
        /\ \A i, j \in DOMAIN services[1] :
               services[1][i] = services[1][j] => i = j
        /\ services[1][1] = "sequencer"
        /\ InServices("redis") <=> ~vflags.simple

\* the largest topology: every optional service requested, non-simple
C15_Witness ==
    /\ services # <<>>
    /\ ~vflags.simple /\ vflags.validate /\ vflags.l3node
    /\ vflags.blockscout /\ vflags.l2Timeboost
    /\ vflags.batchposters = MAX_BATCH_POSTERS
    /\ vflags.redundantsequencers = MAX_REDUNDANT_SEQUENCERS
    /\ Len(services[1]) = 13
    /\ InServices("redis")

\* the flags of the two-poster scenario
C16_Case ==
    /\ vflags.batchposters = 2 /\ vflags.redundantsequencers = 0
    /\ ~vflags.simple /\ ~vflags.validate /\ ~vflags.l3node
    /\ ~vflags.blockscout /\ ~vflags.l2Timeboost

\* C16: for batchposters=2, redundantsequencers=0 and the five booleans
\* false, the list is exactly sequencer, redis, poster, poster_b,
\* staker-unsafe: five entries, none twice, nothing else
C16_TwoPosterTopology ==
    services # <<>> /\ C16_Case =>
        /\ Len(services[1]) = 5
        /\ {services[1][i] : i \in DOMAIN services[1]} =
               {"sequencer", "redis", "poster", "poster_b", "staker-unsafe"}

\* the two-poster scenario has been computed
C16_Witness == services # <<>> /\ C16_Case /\ InServices("poster_b")

\* C17: validator is in the list iff validate; staker-unsafe iff neither
\* validate nor simple; never both, and neither exactly when simple without
\* validate
C17_ValidatorOrStaker ==
    services # <<>> =>
        /\ InServices("validator") <=> vflags.validate
        /\ InServices("staker-unsafe") <=>
               (~vflags.validate /\ ~vflags.simple)
        /\ ~(InServices("validator") /\ InServices("staker-unsafe"))
        /\ (~InServices("validator") /\ ~InServices("staker-unsafe")) <=>
               (vflags.simple /\ ~vflags.validate)

\* validation requested in non-simple mode: the validator runs, the staker
\* does not
C17_Witness ==
    /\ services # <<>>
    /\ vflags.validate /\ ~vflags.simple
    /\ InServices("validator") /\ ~InServices("staker-unsafe")

C20_NowaitRequiresDetach ==
    vflags.nowait /\ ~vflags.detach =>
        /\ calls = <<>>
        /\ pc \in {"startCommand", "rejected"}

\* ------------------------------------------------------------------------
\* Properties of the sub-workflows of the init pipeline
\* ------------------------------------------------------------------------

\* the messages of the errors thrown for an absent InitContext field
C21_PreconditionMessages ==
    {"L2 owner address not set",
     "Missing required context values for rollup deployment",
     "L2 owner key not available for token bridge deployment",
     "L2 owner key not available"}

\* C21: when a step that reads an InitContext field is about to execute, the
\* field holds a non-empty value, and no run fails with a missing
\* precondition error
C21_FieldsSetBeforeRead ==
    /\ pc = "writeL2ChainConfig" => ~Falsy(ctx.l2OwnerAddress)
    /\ pc = "deployRollup" =>
          /\ ~Falsy(ctx.l2OwnerAddress) /\ ~Falsy(ctx.l2OwnerKey)
          /\ ~Falsy(ctx.sequencerAddress) /\ ~Falsy(ctx.wasmRoot)
    /\ pc \in {"deployTokenBridge", "deployPostDeployContracts"} =>
          ~Falsy(ctx.l2OwnerKey)
    /\ pc = "deployL3Rollup_deploy" => ~Falsy(ctx.wasmRoot)
    /\ err.message \notin C21_PreconditionMessages

\* the L3 rollup deployment has been issued with the WASM root of deployL2
C21_Witness ==
    /\ lastCall.step = "deployL3Rollup_deploy"
    /\ \E j \in DOMAIN lastCall.args :
          lastCall.args[j] = <<"WASM_MODULE_ROOT", ctx.wasmRoot>>
    /\ ~Falsy(ctx.wasmRoot)

\* the steps after which a detached traffic generator is spawned
C22_TrafficSteps ==
    {"setupL1TrafficGenerator", "setupL2TrafficGenerator",
     "setupL3TrafficGenerator"}

\* one step of the pipeline issues at most one Command-Executor call and
\* ends holding that call's result; a background process appears only with
\* the successful funding call of a traffic step
C22_Step ==
    /\ \/ calls' = calls /\ lastCall' = lastCall
       \/ calls' = Append(calls, lastCall'.step)
    /\ ~(background' \subseteq background) =>
          /\ calls' # calls
          /\ lastCall'.step \in C22_TrafficSteps
          /\ lastCall'.code = 0
          /\ Cardinality(background' \ background) = 1
          /\ background \subseteq background'

\* C22: at most one Command-Executor call of the pipeline is outstanding:
\* every step that issues a call has its result before the next step is
\* taken, and only the detached traffic generators run beside the pipeline
C22_OneCallAtATime == [][C22_Step]_vars

\* the services are launched while a detached traffic generator runs
C22_Witness ==
    /\ background # {}
    /\ lastCall.step = "launchServices"
    /\ calls[Len(calls)] = "launchServices"

\* ------------------------------------------------------------------------
\* Properties of the clean command
\* ------------------------------------------------------------------------

\* C23: without force, cleanCommand stops no service and removes no volume
\* unless the user has confirmed; cleanCommand has no step in which the user
\* is asked, so without force no such call may be issued
C23_CleanNeedsConfirmation ==
    ~options.force =>
        \A i \in DOMAIN calls :
            calls[i] \notin {"stopServices", "removeVolumes"}

\* ------------------------------------------------------------------------
\* Properties of the steps called on any context
\* ------------------------------------------------------------------------

\* the InitContext fields a step needs
C24_Needs(step) ==
    CASE step = "writeL2ChainConfig" -> {ctx.l2OwnerAddress}
      [] step = "deployRollup" ->
             {ctx.l2OwnerAddress, ctx.l2OwnerKey, ctx.sequencerAddress,
              ctx.wasmRoot}
      [] step \in {"deployTokenBridge_rollup",
                   "deployPostDeployContracts_cache"} -> {ctx.l2OwnerKey}
      [] step = "deployL3Rollup_deploy" -> {ctx.wasmRoot}
      [] OTHER -> {}

\* C24: a step whose required InitContext field is absent issues no command:
\* the command a step has issued found every field it needs non-empty, and
\* the L3 rollup deployment is never run with an empty WASM_MODULE_ROOT
C24_NoCommandWithAbsentField ==
    /\ \A v \in C24_Needs(lastCall.step) : ~Falsy(v)
    /\ lastCall.step = "deployL3Rollup_deploy" =>
          \A j \in DOMAIN lastCall.args :
              lastCall.args[j][1] = "WASM_MODULE_ROOT" =>
                  lastCall.args[j][2] # <<>>

\* s is an initial part of t
IsPrefix(s, t) ==
    Len(s) <= Len(t) /\ \A i \in 1..Len(s) : s[i] = t[i]

\* the commands of setupPrysm
C25_PrysmSteps ==
    <<"writePrysmConfig", "createBeaconChainGenesis", "startBeaconChain",
      "startValidator">>

\* the commands of setupL1 in the order the claim gives them
C25_Order(pos) ==
    <<"generateL1Keys_writeAccounts", "generateL1Keys_passphrase",
      "generateL1Keys_keystore", "generateL1Keys_config",
      "writeGethGenesis">>
    \o (IF pos THEN C25_PrysmSteps ELSE <<>>)
    \o <<"initializeGeth", "startGeth_up", "startGeth_sync",
         "fundAccounts_validator", "fundAccounts_sequencer",
         "fundAccounts_l2owner", "getL2OwnerAddress">>

C25_Steps == {C25_Order(TRUE)[i] : i \in DOMAIN C25_Order(TRUE)}

\* the setupL1 commands issued so far, in order
C25_Issued == SelectSeq(calls, LAMBDA step : step \in C25_Steps)

\* C25: setupL1 issues its commands in the given order, the Prysm commands
\* only with pos; a non-zero exit of one of them aborts the run before the
\* next is issued; only a wait-for-sync failure has the message 'Geth sync
\* failed'; ctx.l2OwnerAddress is set only after every command of setupL1
\* was issued and succeeded, to a value that starts with 0x
C25_SetupL1InOrder ==
    /\ IsPrefix(C25_Issued, C25_Order(ctx.flags.pos))
    /\ (lastCall.step \in C25_Steps /\ lastCall.code # 0) =>
          /\ pc = "failed"
          /\ calls[Len(calls)] = lastCall.step
          /\ err.message = "Geth sync failed"
                 <=> lastCall.step = "startGeth_sync"
    /\ ~Falsy(ctx.l2OwnerAddress) =>
          /\ C25_Issued = C25_Order(ctx.flags.pos)
          /\ validAddress(ctx.l2OwnerAddress)

\* a proof-of-stake L1 has been set up to the end
C25_Witness ==
    /\ ctx.flags.pos
    /\ lastCall.step = "getL2OwnerAddress"
    /\ ctx.l2OwnerAddress = GoodAddr
    /\ Len(C25_Issued) = 16

\* the commands of deployL2 in the order the claim gives them, up to the
\* first command of the AnyTrust sub-workflow
C26_Order(anytrust) ==
    <<"getSequencerAddress", "getL2OwnerKey", "getWasmRoot",
      "writeL2ChainConfig", "deployRollup", "processDeployedChainInfo">>
    \o (IF anytrust THEN <<"createDasDirectories_mkdir">> ELSE <<>>)

C26_Steps == {C26_Order(TRUE)[i] : i \in DOMAIN C26_Order(TRUE)}

\* the deployL2 commands issued so far, in order
C26_Issued == SelectSeq(calls, LAMBDA step : step \in C26_Steps)

\* the value the environment bundle of the last call gives a variable
C26_Env(name) ==
    LET i == CHOOSE j \in DOMAIN lastCall.args : lastCall.args[j][1] = name
    IN  lastCall.args[i][2]

C27_Order(anytrust, services_run) ==
    (IF anytrust
     THEN <<"createDasDirectories_mkdir", "createDasDirectories_chown",
            "generateDasKeys_A", "generateDasKeys_B",
            "writeDasConfigs_committee", "writeDasConfigs_mirror",
            "readBlsKeys_A", "readBlsKeys_B", "writeKeysetConfig_write",
            "writeKeysetConfig_dump", "setValidKeyset">>
          \o (IF services_run THEN <<"startAnyTrustServices">> ELSE <<>>)
     ELSE <<>>)
    \o <<"writeNodeConfigs">>

C27_Steps == {C27_Order(TRUE, TRUE)[i] : i \in DOMAIN C27_Order(TRUE, TRUE)}

\* the AnyTrust and write-config commands issued so far, in order
C27_Issued == SelectSeq(calls, LAMBDA step : step \in C27_Steps)

\* the options of the last call that carry the name
C27_Options(name) ==
    {i \in DOMAIN lastCall.args : lastCall.args[i][1] = name}

C27_State ==
    /\ IsPrefix(C27_Issued, C27_Order(ctx.flags.l2Anytrust, ctx.flags.run))
    /\ (lastCall.step \in C27_Steps /\ lastCall.code # 0) =>
          pc = "failed" /\ calls[Len(calls)] = lastCall.step
    /\ ~ctx.flags.l2Anytrust => ctx.anyTrustConfig = Undef
    /\ lastCall.step = "writeNodeConfigs" =>
          IF ctx.flags.l2Anytrust
          THEN /\ ctx.anyTrustConfig # Undef
               /\ C27_Options("--anytrust") # {}
               /\ \A i \in C27_Options("--dasBlsA") :
                      lastCall.args[i][2] = ctx.anyTrustConfig[1]
               /\ \A i \in C27_Options("--dasBlsB") :
                      lastCall.args[i][2] = ctx.anyTrustConfig[2]
               /\ Cardinality(C27_Options("--dasBlsA")) = 1
               /\ Cardinality(C27_Options("--dasBlsB")) = 1
          ELSE /\ C27_Options("--anytrust") = {}
               /\ C27_Options("--dasBlsA") = {}
               /\ C27_Options("--dasBlsB") = {}

\* the AnyTrust config of the context is set once, by the last step of the
\* sub-workflow, to the two keys that were read back
C27_Step ==
    ctx'.anyTrustConfig # ctx.anyTrustConfig =>
        /\ ctx.anyTrustConfig = Undef
        /\ ctx'.anyTrustConfig = <<loc.dasBlsA, loc.dasBlsB>>
        /\ lastCall'.step = C27_Order(TRUE, ctx.flags.run)[
                                Len(C27_Order(TRUE, ctx.flags.run)) - 1]
        /\ lastCall'.code = 0

\* C27: without l2Anytrust no committee command is issued and the AnyTrust
\* config stays undefined; with it, write-config is issued only after every
\* AnyTrust command succeeded, in order, and carries --anytrust with exactly
\* the two BLS keys read back in the sub-workflow; a failed AnyTrust command
\* ends the run
C27_AnyTrustBeforeNodeConfig == []C27_State /\ [][C27_Step]_vars

\* write-config has been issued with two different keys: committee A's was
\* read back empty, committee B's was not
C27_Witness ==
    /\ lastCall.step = "writeNodeConfigs"
    /\ ctx.flags.l2Anytrust
    /\ ctx.anyTrustConfig = << <<>>, <<"k", "e", "y">> >>

\* the step has issued its command in this run
InCalls(step) == \E i \in DOMAIN calls : calls[i] = step

\* the commands of initializeRedis
C28_RedisSteps ==
    {"initializeRedis_up", "initializeRedis_init"}

\* the commands of startSequencersAndFund
C28_SequencerSteps ==
    {"startSequencersAndFund_up", "startSequencersAndFund_bridge",
     "startSequencersAndFund_send"}

\* the commands of setupTimeboost
C28_TimeboostSteps ==
    {"fundAuctioneer", "deployBiddingToken", "deployAuctionContract",
     "getAuctioneerAddress", "writeTimeboostConfigs",
     "fixAuctioneerPermissions", "fundTestAccounts_aliceEth",
     "fundTestAccounts_bobEth", "fundTestAccounts_aliceToken",
     "fundTestAccounts_bobToken", "updateSequencerConfig",
     "restartSequencers"}

\* the commands of deployTokenBridge
C28_TokenBridgeSteps ==
    {"deployTokenBridge_rollup", "deployTokenBridge_deploy",
     "deployTokenBridge_copy"}

\* the commands of deployPostDeployContracts
C28_PostDeploySteps ==
    {"deployPostDeployContracts_cache", "deployPostDeployContracts_stylus",
     "deployPostDeployContracts_gasL1", "deployPostDeployContracts_gasL2"}

\* the commands of deployL3
C28_L3Steps ==
    {"fundL3Users_validator", "fundL3Users_l3owner",
     "fundL3Users_l3sequencer", "fundL2Deployers_l1", "fundL2Deployers_l2",
     "fundTokenDeployer_l1", "fundTokenDeployer_l2", "getL3OwnerAddress",
     "writeL3ChainConfig", "deployCustomFeeToken_create",
     "deployCustomFeeToken_toOwner", "deployCustomFeeToken_toDeployer",
     "deployCustomFeeToken_pricer", "getL3OwnerKey", "getL3SequencerAddress",
     "deployL3Rollup_deploy", "deployL3Rollup_jq", "startL3Node",
     "deployL3TokenBridge_deployerKey", "deployL3TokenBridge_rollup",
     "getL2WethAddress", "deployL3TokenBridge_deploy",
     "deployL3TokenBridge_copy", "transferL3ChainOwnership",
     "transferL3ChainOwnership_transfer", "fundL3Accounts_bridgeNative",
     "fundL3Accounts_bridge", "fundL3Accounts_sendDeployer",
     "fundL3Accounts_sendOwner", "deployCacheManagerL3",
     "deployStylusDeployerL3"}

\* the part of configureL2Nodes a command belongs to, in the order of the
\* claim; 0 for the commands of the other phases
C28_Part(step) ==
    CASE step = "writeNodeConfigs" -> 1
      [] step \in C28_RedisSteps -> 2
      [] step \in C28_SequencerSteps -> 3
      [] step \in C28_TimeboostSteps -> 4
      [] step \in C28_TokenBridgeSteps -> 5
      [] step \in C28_PostDeploySteps -> 6
      [] step \in C28_L3Steps -> 7
      [] OTHER -> 0

\* the first commands of configureL2Nodes, through the funding of l2owner
C28_Head(simple) ==
    <<"writeNodeConfigs">>
    \o (IF simple THEN <<>>
        ELSE <<"initializeRedis_up", "initializeRedis_init">>)
    \o <<"startSequencersAndFund_up", "startSequencersAndFund_bridge",
         "startSequencersAndFund_send">>

\* a command of the L3 sub-workflow has been issued
C28_L3Issued == \E i \in DOMAIN calls : C28_Part(calls[i]) = 7

\* C28: the commands of configureL2Nodes are issued part by part in the
\* order node configs, redis (non-simple only), initial sequencers and
\* funding, Timeboost (only with l2Timeboost), token bridge (only with
\* tokenbridge), post-deploy contracts, L3 (only with l3node); the L3
\* sub-workflow issues commands only after the last command of every
\* earlier part; in non-simple mode the sequencers are started only after
\* redis-init succeeded
C28_ConfigureInOrder ==
    /\ LET issued == SelectSeq(calls, LAMBDA step : C28_Part(step) > 0)
       IN  \A i \in 1..(Len(issued) - 1) :
               C28_Part(issued[i]) <= C28_Part(issued[i + 1])
    /\ IsPrefix(SelectSeq(calls, LAMBDA step : C28_Part(step) \in 1..3),
                C28_Head(ctx.flags.simple))
    /\ \A i \in DOMAIN calls :
          /\ C28_Part(calls[i]) = 2 => ~ctx.flags.simple
          /\ C28_Part(calls[i]) = 4 => ctx.flags.l2Timeboost
          /\ C28_Part(calls[i]) = 5 => ctx.flags.tokenbridge
          /\ C28_Part(calls[i]) = 7 => ctx.flags.l3node
    /\ (lastCall.step = "initializeRedis_init" /\ lastCall.code # 0) =>
          pc = "failed" /\ calls[Len(calls)] = lastCall.step
    /\ C28_L3Issued =>
          /\ InCalls("startSequencersAndFund_send")
          /\ ctx.flags.l2Timeboost => InCalls("restartSequencers")
          /\ ctx.flags.tokenbridge => InCalls("deployTokenBridge_copy")
          /\ InCalls("deployPostDeployContracts_gasL2")

\* a non-simple node set with Timeboost and the token bridge is configured
\* up to the post-deploy contracts
C28_Witness ==
    /\ ~ctx.flags.simple /\ ctx.flags.l2Timeboost /\ ctx.flags.tokenbridge
    /\ lastCall.step = "deployPostDeployContracts_gasL2"
    /\ InCalls("initializeRedis_init") /\ InCalls("restartSequencers")
    /\ InCalls("deployTokenBridge_copy")

\* the Timeboost commands whose failure is only a warning
C29_BestEffort == {"fixAuctioneerPermissions", "restartSequencers"}

\* C29: in the Timeboost sub-workflow a non-zero exit of the ownership fix
\* or of the sequencer restart is a warning and the sub-workflow goes on to
\* its end; a non-zero exit of any other command, or an address that does
\* not start with 0x, aborts; the sequencer config is patched only with an
\* auction contract address and an auctioneer address that were obtained;
\* the restart names sequencer, and sequencer_b iff redundantsequencers > 0;
\* without l2Timeboost no Timeboost command is issued
C29_TimeboostFailures ==
    /\ (lastCall.step \in C29_BestEffort /\ lastCall.code # 0) =>
          /\ lastCall.warned
          /\ err = NoError /\ pc # "failed"
          /\ lastCall.step = "fixAuctioneerPermissions" =>
                 pc = "fundTestAccounts_aliceEth"
    /\ (/\ lastCall.step \in C28_TimeboostSteps \ C29_BestEffort
        /\ lastCall.code # 0) =>
          pc = "failed" /\ calls[Len(calls)] = lastCall.step
    /\ pc = "deployAuctionContract" => validAddress(loc.biddingTokenAddress)
    /\ pc = "getAuctioneerAddress" =>
          validAddress(loc.auctionContractAddress)
    /\ pc = "writeTimeboostConfigs" => validAddress(loc.auctioneerAddress)
    /\ lastCall.step = "updateSequencerConfig" =>
          /\ InCalls("deployAuctionContract")
          /\ InCalls("getAuctioneerAddress")
          /\ lastCall.addrs # {}
          /\ \A a \in lastCall.addrs : validAddress(a)
    /\ lastCall.step = "restartSequencers" =>
          /\ InCalls("updateSequencerConfig")
          /\ lastCall.args =
                 IF ctx.flags.redundantsequencers > 0
                 THEN <<"sequencer", "sequencer_b">> ELSE <<"sequencer">>
    /\ ~ctx.flags.l2Timeboost =>
          \A i \in DOMAIN calls : calls[i] \notin C28_TimeboostSteps

\* the restart of sequencer and sequencer_b failed and the run goes on
C29_Witness ==
    /\ lastCall.step = "restartSequencers"
    /\ lastCall.code # 0 /\ lastCall.warned
    /\ lastCall.args = <<"sequencer", "sequencer_b">>
    /\ pc = "deployTokenBridge" /\ loc = NoLoc

\* the commands that fund user_fee_token_deployer on L1 and on L2
C30_TokenDeployerSteps == {"fundTokenDeployer_l1", "fundTokenDeployer_l2"}

\* C30: in the L3 sub-workflow the second deployer account,
\* user_fee_token_deployer, is funded only when the custom fee token is
\* requested: with l3node and without l3FeeToken no command funding it is
\* issued
C30_TokenDeployerOnlyWithFeeToken ==
    (ctx.flags.l3node /\ ~ctx.flags.l3FeeToken) =>
        \A i \in DOMAIN calls : calls[i] \notin C30_TokenDeployerSteps

\* the environment bundle of the last call names the variable
C31_HasEnv(name) ==
    \E j \in DOMAIN lastCall.args : lastCall.args[j][1] = name

\* C31: the environment of the L3 rollup deployment contains
\* FEE_TOKEN_ADDRESS iff l3FeeToken, and then it is the 0x-checked address
\* the fee token creation printed; it contains FEE_TOKEN_PRICER_ADDRESS iff
\* l3FeeToken and l3FeeTokenPricer, so never a pricer address without a fee
\* token address; the L3 funding afterwards bridges the native token iff
\* there is a fee token address and bridges ETH otherwise
C31_FeeTokenEnvironment ==
    /\ lastCall.step = "deployL3Rollup_deploy" =>
          /\ C31_HasEnv("FEE_TOKEN_ADDRESS") <=> ctx.flags.l3FeeToken
          /\ C31_HasEnv("FEE_TOKEN_ADDRESS") =>
                /\ InCalls("deployCustomFeeToken_create")
                /\ C26_Env("FEE_TOKEN_ADDRESS") = loc.nativeTokenAddress
                /\ validAddress(C26_Env("FEE_TOKEN_ADDRESS"))
          /\ C31_HasEnv("FEE_TOKEN_PRICER_ADDRESS") <=>
                (ctx.flags.l3FeeToken /\ ctx.flags.l3FeeTokenPricer)
          /\ C31_HasEnv("FEE_TOKEN_PRICER_ADDRESS") =>
                /\ C31_HasEnv("FEE_TOKEN_ADDRESS")
                /\ validAddress(C26_Env("FEE_TOKEN_PRICER_ADDRESS"))
    /\ InCalls("fundL3Accounts_bridgeNative") =>
          /\ ctx.flags.l3FeeToken
          /\ InCalls("deployCustomFeeToken_create")
          /\ ~InCalls("fundL3Accounts_bridge")
    /\ InCalls("fundL3Accounts_bridge") =>
          /\ ~ctx.flags.l3FeeToken
          /\ ~InCalls("deployCustomFeeToken_create")
    /\ InCalls("fundL3Accounts_sendOwner") =>
          (InCalls("fundL3Accounts_bridgeNative")
           \/ InCalls("fundL3Accounts_bridge"))

\* the L3 rollup was deployed with both addresses and the native token is
\* being bridged
C31_Witness ==
    /\ lastCall.step = "fundL3Accounts_bridgeNative"
    /\ lastCall.code = 0
    /\ InCalls("deployL3Rollup_deploy")
    /\ InCalls("deployCustomFeeToken_pricer")
    /\ validAddress(loc.nativeTokenAddress)
    /\ validAddress(loc.feeTokenPricerAddress)

\* the best-effort commands of the post-deploy and L3 steps
C32_BestEffort ==
    {"deployPostDeployContracts_cache", "deployPostDeployContracts_stylus",
     "deployCacheManagerL3", "deployStylusDeployerL3",
     "deployL3TokenBridge_copy", "transferL3ChainOwnership",
     "transferL3ChainOwnership_transfer"}

\* the step that follows a best-effort command and always issues a command
\* of its own; the L3 stylus deployer is the last step of its phase
C32_Following(step) ==
    CASE step = "deployPostDeployContracts_cache" ->
             {"deployPostDeployContracts_stylus"}
      [] step = "deployPostDeployContracts_stylus" ->
             {"deployPostDeployContracts_gasL1"}
      [] step = "deployCacheManagerL3" -> {"deployStylusDeployerL3"}
      [] step = "deployL3TokenBridge_copy" -> {"transferL3ChainOwnership"}
      [] step \in {"transferL3ChainOwnership",
                   "transferL3ChainOwnership_transfer"} -> {"fundL3Accounts"}
      [] OTHER -> {"runInit", "setupTrafficGenerators",
                   "setupL1TrafficGenerator", "setupL2TrafficGenerator",
                   "setupL3TrafficGenerator", "launchServices", "done"}

\* C32: a non-zero exit of the cache manager or the stylus deployer
\* deployment, on L2 and on L3, of the copy of the L3 token bridge network
\* files or of a part of the chain ownership transfer is a warning: the run
\* does not fail and goes on with the step that follows; a non-zero exit of
\* the L3 token bridge deployment itself aborts
C32_BestEffortNeverAborts ==
    /\ (lastCall.step \in C32_BestEffort /\ lastCall.code # 0) =>
          /\ lastCall.warned
          /\ err = NoError /\ errorLog = NoLog /\ pc # "failed"
          /\ pc \in C32_Following(lastCall.step)
    /\ (lastCall.step = "deployL3TokenBridge_deploy" /\ lastCall.code # 0) =>
          /\ pc = "failed"
          /\ calls[Len(calls)] = "deployL3TokenBridge_deploy"

\* the L3 stylus deployer failed and the run has reached 'Launch services'
C32_Witness ==
    /\ lastCall.step = "deployStylusDeployerL3"
    /\ lastCall.code # 0 /\ lastCall.warned
    /\ pc = "launchServices"

\* some traffic generator is asked for
C33_AnyTraffic ==
    ctx.flags.l1Traffic \/ ctx.flags.l2Traffic \/ ctx.flags.l3Traffic

\* only L3 traffic is asked for, and no L3 chain
C33_L3TrafficAlone ==
    /\ ctx.flags.l3Traffic /\ ~ctx.flags.l3node
    /\ ~ctx.flags.l1Traffic /\ ~ctx.flags.l2Traffic

\* the position of the traffic phase among the phases
C33_TrafficPhase ==
    CHOOSE i \in DOMAIN createInitPhases :
        createInitPhases[i].name = "Setup traffic generators"

C33_Started(name) == \E i \in DOMAIN started : started[i] = name

C33_State ==
    /\ phaseIdx >= C33_TrafficPhase =>
          (C33_Started("Setup traffic generators") <=> C33_AnyTraffic)
    /\ ~C33_AnyTraffic =>
          /\ \A i \in DOMAIN calls : calls[i] \notin C22_TrafficSteps
          /\ background = {}
    /\ (InCalls("setupL3TrafficGenerator") \/ "L3 traffic" \in background) =>
          (ctx.flags.l3Traffic /\ ctx.flags.l3node)
    /\ C33_L3TrafficAlone =>
          /\ \A i \in DOMAIN calls : calls[i] \notin C22_TrafficSteps
          /\ background = {}
          /\ phaseIdx = C33_TrafficPhase => pc # "failed"

C33_Step ==
    (phaseIdx = C33_TrafficPhase - 1 /\ phaseIdx' = C33_TrafficPhase
     /\ ~C33_AnyTraffic) =>
        /\ pc' = "runInit"
        /\ UNCHANGED <<ctx, calls, lastCall, background, started, err>>

\* C33: the traffic phase is skipped, with no command issued and the
\* context unchanged, iff l1Traffic, l2Traffic and l3Traffic are all false;
\* L3 traffic is funded and started only with l3Traffic and l3node, so with
\* l3Traffic alone and no l3node the phase runs, issues no command, starts
\* no background process and does not fail
C33_TrafficPhaseSkip == []C33_State /\ [][C33_Step]_vars

\* L3 traffic alone without an L3 chain: the phase ran, did nothing, and
\* 'Launch services' is entered
C33_Witness ==
    /\ C33_L3TrafficAlone
    /\ C33_Started("Setup traffic generators")
    /\ pc = "launchServices"
    /\ background = {}

\* the funding command that precedes the spawn of a generator
C34_FundingStep(name) ==
    CASE name = "L1 traffic" -> "setupL1TrafficGenerator"
      [] name = "L2 traffic" -> "setupL2TrafficGenerator"
      [] name = "L3 traffic" -> "setupL3TrafficGenerator"

C34_State ==
    /\ \A name \in background : InCalls(C34_FundingStep(name))
    /\ pc # "crashed"

C34_Step ==
    /\ ~(background' \subseteq background) =>
          /\ lastCall'.step \in C22_TrafficSteps
          /\ lastCall'.code = 0
          /\ background' \ background \subseteq
                 {name \in {"L1 traffic", "L2 traffic", "L3 traffic"} :
                     C34_FundingStep(name) = lastCall'.step}
    /\ (background' \subseteq background /\ background' # background) =>
          UNCHANGED <<pc, ctx, phaseIdx, started, calls, lastCall, err,
                      errorLog>>

\* C34: the background traffic generators are fire-and-forget: a generator
\* is spawned only after the funding command of its layer succeeded, the
\* pipeline does not wait for it, and neither a generator that cannot be
\* started nor one that fails or exits later changes the outcome of the run
\* or keeps 'Launch services' from running
C34_FireAndForget == []C34_State /\ [][C34_Step]_vars

\* the fields of the InitContext that the phases fill in
C35_Fields ==
    {"l2OwnerAddress", "l2OwnerKey", "sequencerAddress", "wasmRoot",
     "anyTrustConfig"}

C35_Step ==
    /\ \A f \in C35_Fields : ctx[f] # Undef => ctx'[f] = ctx[f]
    /\ Cardinality({f \in C35_Fields : ctx'[f] # ctx[f]}) <= 1
    /\ pc # "initCommand" =>
          /\ ctx'.flags = ctx.flags
          /\ ctx'.l1ChainId = ctx.l1ChainId

\* C35: within one run the fields of the context are write-once: each of
\* l2OwnerAddress, l2OwnerKey, sequencerAddress, wasmRoot and anyTrustConfig
\* never changes once it holds a value, and no phase modifies ctx.flags or
\* ctx.l1ChainId
C35_WriteOnce == [][C35_Step]_vars

\* a run that has filled in all five fields and was completed
C35_Witness ==
    /\ pc = "done"
    /\ \A f \in C35_Fields : ctx[f] # Undef

\* the last call was given the option
C36_HasOption(o) == \E i \in DOMAIN lastCall.args : lastCall.args[i] = o

\* the arguments of the last call after its options
C36_Services ==
    SelectSeq(lastCall.args, LAMBDA a : a \notin {"-d", "--wait"})

\* C36: the 'Launch services' phase starts exactly the list
\* calculateServices(ctx.flags), always detached, waiting for health iff
\* nowait is false, and a non-zero exit fails the run; startCommand passes
\* wait only together with detach (wait = detach and not nowait), so
\* compose-up is never given --wait without -d
C36_LaunchOptions ==
    /\ lastCall.step = "launchServices" =>
          /\ C36_Services = calculateServices(ctx.flags)
          /\ C36_HasOption("-d")
          /\ C36_HasOption("--wait") <=> ~ctx.flags.nowait
          /\ lastCall.code # 0 =>
                /\ pc = "failed"
                /\ err.message = "Failed to launch services"
          /\ lastCall.code = 0 => pc \in {"runInit", "done"}
    /\ lastCall.step = "composeUp" =>
          /\ C36_Services = calculateServices(vflags)
          /\ C36_HasOption("-d") <=> vflags.detach
          /\ C36_HasOption("--wait") <=> (vflags.detach /\ ~vflags.nowait)
    /\ lastCall.step \in {"launchServices", "composeUp"} =>
          (C36_HasOption("--wait") => C36_HasOption("-d"))

\* start without detach and without nowait: compose-up runs in the
\* foreground and is not told to wait
C36_Witness ==
    /\ lastCall.step = "composeUp"
    /\ ~vflags.detach /\ ~vflags.nowait
    /\ ~C36_HasOption("--wait") /\ ~C36_HasOption("-d")
    /\ pc = "done"

\* the init pipeline has launched its services detached and waiting
C36_WitnessInit ==
    /\ lastCall.step = "launchServices"
    /\ lastCall.code = 0
    /\ C36_HasOption("--wait") /\ C36_HasOption("-d")

\* the initial sequencer set that was calculated names the node
C37_Initial(name) ==
    \E i \in DOMAIN services[2] : services[2][i] = name

C38_NeedsFullMode ==
    \/ input.devNitro \/ input.devBlockscout \/ input.validate
    \/ input.batchposters > 1 \/ input.redundantsequencers > 0

C38_Codes(seq) == {seq[i] : i \in DOMAIN seq}

\* C38: the FlagSet initCommand validates and hands to runInit has simple
\* false whenever devNitro, devBlockscout, validate, batchposters > 1 or
\* redundantsequencers > 0 is given, and always detach and nowait false; so
\* an init run never produces a SIMPLE_MODE_IGNORES warning or
\* NOWAIT_REQUIRES_DETACH, and the launched service list has poster whenever
\* it has poster_b and redis whenever it has sequencer_b
C38_InitFlagSet ==
    LET flags == toTestnodeFlags(input)
        validation == validateFlags(flags)
    IN  /\ C38_NeedsFullMode => ~flags.simple
        /\ ~flags.detach /\ ~flags.nowait
        /\ C38_Codes(validation.warnings)
             \cap {"SIMPLE_MODE_IGNORES_BATCH_POSTERS",
                   "SIMPLE_MODE_IGNORES_REDUNDANT_SEQUENCERS"} = {}
        /\ "NOWAIT_REQUIRES_DETACH" \notin C38_Codes(validation.errors)
        /\ pc \notin {"initCommand", "rejected"} => ctx.flags = flags
        /\ lastCall.step = "launchServices" =>
              /\ C36_HasOption("poster_b") => C36_HasOption("poster")
              /\ C36_HasOption("sequencer_b") => C36_HasOption("redis")

\* init --simple with two batch posters: the services are launched with
\* poster and poster_b, in full mode
C38_Witness ==
    /\ input.simple /\ input.batchposters = 2
    /\ lastCall.step = "launchServices"
    /\ ~ctx.flags.simple
    /\ C36_HasOption("poster_b") /\ C36_HasOption("poster")

\* the dependencies between the L3 options
C39_Dependencies(f) ==
    /\ f.l3FeeTokenPricer => f.l3FeeToken
    /\ f.l3FeeTokenDecimals # DEFAULT_FEE_TOKEN_DECIMALS => f.l3FeeToken
    /\ f.l3FeeToken => f.l3node
    /\ f.l3TokenBridge => f.l3node

\* the 'Configure L2 nodes' phase, whose last step is deployL3, is over
C39_ConfiguredL2 ==
    \/ pc = "done"
    \/ pc \notin {"failed", "crashed"} /\ phaseIdx >= C33_TrafficPhase

\* C39: every FlagSet validateFlags accepts has l3FeeTokenPricer only with
\* l3FeeToken, decimals other than 18 only with l3FeeToken, l3FeeToken only
\* with l3node and l3TokenBridge only with l3node; so in a validated init
\* run no requested L3 feature is dropped by the l3node guard of deployL3 or
\* the l3FeeToken guard of deployCustomFeeToken
C39_AcceptedL3Flags ==
    /\ (vresult # <<>> /\ vresult[1].valid) => C39_Dependencies(vflags)
    /\ pc \notin {"initCommand", "rejected", "idle"} =>
          /\ C39_Dependencies(ctx.flags)
          /\ C39_ConfiguredL2 =>
                /\ input.l3FeeToken => InCalls("deployCustomFeeToken_create")
                /\ input.l3FeeTokenPricer =>
                      InCalls("deployCustomFeeToken_pricer")
                /\ input.l3TokenBridge =>
                      InCalls("deployL3TokenBridge_deploy")
                /\ input.l3node => InCalls("deployL3Rollup_deploy")

\* a FlagSet with all four L3 features and custom decimals was accepted
C39_Witness ==
    /\ vresult # <<>> /\ vresult[1].valid
    /\ vflags.l3node /\ vflags.l3FeeToken /\ vflags.l3FeeTokenPricer
    /\ vflags.l3TokenBridge
    /\ vflags.l3FeeTokenDecimals # DEFAULT_FEE_TOKEN_DECIMALS

\* how often a volume occurs in a list
C40_Count(seq, v) == Cardinality({i \in DOMAIN seq : seq[i] = v})

\* the removal commands issued so far
C40_Attempts == C40_Count(calls, "removeVolumes")

\* the loop of removeVolumes is over
C40_Returned ==
    pc \in {"cleanCommand_cleanImages", "done"}
    \/ (pc = "failed" /\ lastCall.step = "pruneImages")

C40_State ==
    /\ C40_Attempts = loc.i
    /\ loc.i <= Len(loc.volumes)
    /\ Len(loc.removed) + Len(loc.failed) = loc.i
    /\ \A v \in VolumeNames :
          C40_Count(loc.removed, v) + C40_Count(loc.failed, v)
              = C40_Count(SubSeq(loc.volumes, 1, loc.i), v)
    /\ C40_Returned => loc.i = Len(loc.volumes)
    /\ (lastCall.step = "removeVolumes" /\ lastCall.code # 0) =>
          pc # "failed" /\ err = NoError
    /\ (lastCall.step = "stopServices" /\ lastCall.code # 0) =>
          /\ lastCall.warned
          /\ pc = "cleanCommand_getVolumes"
          /\ err = NoError

C40_Step ==
    calls' # calls /\ lastCall'.step = "removeVolumes" =>
        /\ loc'.i = loc.i + 1
        /\ lastCall'.args = loc.volumes[loc'.i]
        /\ IF lastCall'.code = 0
           THEN /\ loc'.removed = Append(loc.removed, lastCall'.args)
                /\ loc'.failed = loc.failed
           ELSE /\ loc'.failed = Append(loc.failed, lastCall'.args)
                /\ loc'.removed = loc.removed
        /\ pc' = IF loc'.i < Len(loc.volumes)
                 THEN "removeVolumes" ELSE "cleanCommand_cleanImages"

\* C40: removeVolumes tries every volume of its input once and in input
\* order, goes on after a removal that fails, and returns removed and failed
\* lists that split the input between them, a volume being removed iff its
\* command exited 0; cleanCommand goes on to the volumes when the compose
\* down before it returned a non-zero exit
C40_RemoveVolumesPartition == []C40_State /\ [][C40_Step]_vars

\* of two volumes the first could not be removed and the second was
C40_Witness ==
    /\ C40_Returned
    /\ Len(loc.volumes) = 2
    /\ loc.failed = <<loc.volumes[1]>>
    /\ loc.removed = <<loc.volumes[2]>>

====
